---- MODULE Spec2Model ----
(***************************************************************************)
(* A model of the editing engine of bim (src/apps/bim.c): the line buffer, *)
(* the edit primitives, the undo/redo journal, the yank register and the   *)
(* modal key handlers that drive them.                                     *)
(*                                                                         *)
(* A buffer (buffer_t) is the record `env`.  A line (line_t) is a record   *)
(* [actual, text]: `actual` is the int field of the source (it can go      *)
(* below zero), `text` is the backing cell array from index 0 as far as it *)
(* has been written, so Len(text) >= actual and the cells past `actual`    *)
(* are the stale cells that memmove leaves behind.  Cells hold codepoints. *)
(* Lines come from calloc, so a cell never written reads as 0.             *)
(*                                                                         *)
(* The journal (history_t chain) is the sequence env.history whose first   *)
(* element is the sentinel; env.hpos is the index env->history points at.  *)
(***************************************************************************)
EXTENDS Integers, Sequences, FiniteSets, TLC

(* ------------------------------ bounds --------------------------------- *)
MaxLines == 3
MaxLen == 3
MaxHist == 6
MaxDeficit == 1
MaxKeys == 4
MaxCommands == 2
MaxBuffers == 2

(* ---------------------- constants of the source ------------------------ *)
MODE_NORMAL == 0
MODE_INSERT == 1
MODE_LINE_SELECTION == 2
MODE_REPLACE == 3
MODE_CHAR_SELECTION == 4
MODE_COL_SELECTION == 5
MODE_COL_INSERT == 6

HISTORY_SENTINEL == 0
HISTORY_INSERT == 1
HISTORY_DELETE == 2
HISTORY_REPLACE == 3
HISTORY_REMOVE_LINE == 4
HISTORY_ADD_LINE == 5
HISTORY_REPLACE_LINE == 6
HISTORY_MERGE_LINES == 7
HISTORY_SPLIT_LINE == 8
HISTORY_BREAK == 10

TAB == 9
LETTER == 97
tabstop == 4

FLAG_KEYWORD == 1
FLAG_TYPE == 4
FLAG_DIFFPLUS == 8
FLAG_DIFFMINUS == 9
FLAG_SELECT == 32
FLAG_SEARCH == 64

\* paren_pairs, "()[]{}<>"
paren_pairs == <<40, 41, 91, 93, 123, 125, 60, 62>>

\* global_config.highlight_parens and global_config.smart_case (default 1)
COMMAND_HISTORY_MAX == 255
highlight_parens == TRUE
smart_case_enabled == TRUE

\* the codepoints a key press can deliver in this model
Alphabet == {LETTER, TAB}

\* global_config.history_enabled (default 1)
history_enabled == TRUE

\* value of last_save_history once the record it pointed at has been freed
DANGLING == 0 - 1

Max(a, b) == IF a > b THEN a ELSE b
Min(a, b) == IF a < b THEN a ELSE b

(* ------------------------------ lines ---------------------------------- *)
EmptyLine == [actual |-> 0, text |-> <<>>]

\* text[i] of the C array (0-based); cells never written are calloc zeroes
CellAt(t, i) == IF i >= 0 /\ i < Len(t) THEN t[i + 1] ELSE 0

\* the live cells of a line: text[0 .. actual-1]
Live(line) == IF line.actual <= 0 THEN <<>> ELSE SubSeq(line.text, 1, line.actual)

\* the document as the user sees it
TextOf(b) == [k \in 1..Len(b.lines) |-> Live(b.lines[k])]

line_count(b) == Len(b.lines)

codepoint_width(c) == IF c = TAB THEN 1 ELSE IF c < 32 THEN 2 ELSE 1

\* display widths of the live cells after recalculate_tabs
RECURSIVE WidthsFrom(_, _, _)
WidthsFrom(t, i, j) ==
    IF i > Len(t) THEN <<>>
    ELSE LET w == IF t[i] = TAB THEN tabstop - (j % tabstop) ELSE codepoint_width(t[i])
         IN <<w>> \o WidthsFrom(t, i + 1, j + w)

recalculate_tabs(line) == WidthsFrom(Live(line), 1, 0)

\* display_width of cell i (0-based) of a line
display_width(line, i) ==
    IF i >= 0 /\ i < line.actual THEN recalculate_tabs(line)[i + 1]
    ELSE codepoint_width(CellAt(line.text, i))

(* ------------------------------ flags ---------------------------------- *)
\* b.flags[l][j] is text[j-1].flags of line l, for the cells below actual; the
\* flags of the cells at and above actual are not kept: every way a cell comes
\* back below actual stores it anew.  b.istate[l] is the istate of line l.
FlagAt(b, l, j) ==
    IF j >= 0 /\ j < Len(b.flags[l]) THEN b.flags[l][j + 1] ELSE 0

Has(f, bit) == (f \div bit) % 2 = 1
With(f, bit) == IF Has(f, bit) THEN f ELSE f + bit
Without(f, bit) == IF Has(f, bit) THEN f - bit ELSE f

\* the flags of the live cells of line l, each changed by Op(l, j, f)
Reflagged(b, Op(_, _, _)) ==
    [b EXCEPT !.flags =
        SubSeq([l \in 1..Len(b.lines) |->
                   SubSeq([j \in 1..Max(b.lines[l].actual, 0) |->
                              Op(l, j, FlagAt(b, l, j - 1))],
                          1, Max(b.lines[l].actual, 0))],
               1, Len(b.lines))]

\* syn_diff_calculate: the flag it paints the whole line with, 0 - 1 if none
syn_diff_calculate(line) ==
    LET charat == IF 0 < line.actual THEN CellAt(line.text, 0) ELSE 0 - 1
    IN IF charat = 43 THEN FLAG_DIFFPLUS
       ELSE IF charat = 45 THEN FLAG_DIFFMINUS
       ELSE IF charat = 64 THEN FLAG_TYPE
       ELSE IF charat # 32 THEN FLAG_KEYWORD
       ELSE 0 - 1

\* the state the loop of recalculate_syntax ends with for line line_no, which
\* is started from the line's istate: syn_diff_calculate returns -1 whatever
\* the line holds and whatever state it is started in
calculated_state(b, line_no) == 0 - 1

\* a faulty recalculate_syntax that goes on to the last line even when the
\* next line already stores the state handed to it; C25 must tell it from
\* the real one
RECURSIVE recalculate_syntax_through(_, _, _)
recalculate_syntax_through(b, line_no, count) ==
    LET line == b.lines[line_no + 1]
        paint == IF b.syntax = "diff" THEN syn_diff_calculate(line) ELSE 0 - 1
        painted == [b EXCEPT !.flags[line_no + 1] =
                       SubSeq([j \in 1..Max(line.actual, 0) |->
                                  IF paint = 0 - 1 THEN 0 ELSE paint],
                              1, Max(line.actual, 0))]
    IN IF b.syntax = "none" \/ line_no + 1 >= count THEN painted
       ELSE IF b.loading
         THEN [painted EXCEPT !.istate[line_no + 2] = calculated_state(b, line_no)]
       ELSE recalculate_syntax_through(
                [painted EXCEPT !.istate[line_no + 2] = calculated_state(b, line_no)],
                line_no + 1, count)

\* recalculate_syntax(line, line_no) while env->line_count is count: the flags
\* of the line are cleared and painted anew, and a state other than 0 (the
\* diff highlighter always returns -1) is handed on to the next line
RECURSIVE recalculate_syntax_in(_, _, _)
recalculate_syntax_in(b, line_no, count) ==
    LET line == b.lines[line_no + 1]
        Painted(paint) ==
            [b EXCEPT !.flags[line_no + 1] =
                SubSeq([j \in 1..Max(line.actual, 0) |-> IF paint = 0 - 1 THEN 0 ELSE paint],
                       1, Max(line.actual, 0))]
        Next_line(next) ==
            IF b.loading THEN next ELSE recalculate_syntax_in(next, line_no + 1, count)
        Rest(painted) ==
            IF b.syntax = "none" THEN painted
            ELSE IF line_no + 1 < count
                    /\ b.istate[line_no + 2] # calculated_state(b, line_no)
              THEN Next_line([painted EXCEPT
                                !.istate[line_no + 2] = calculated_state(b, line_no)])
            ELSE painted
    IN Rest(Painted(IF b.syntax = "diff" THEN syn_diff_calculate(line) ELSE 0 - 1))

recalculate_syntax(b, line_no) == recalculate_syntax_in(b, line_no, Len(b.lines))

\* the recalculate_syntax that the edit primitives skip while loading
Recalculated(b, line_no) == IF b.loading THEN b ELSE recalculate_syntax(b, line_no)

\* for (i = 0; i < line_count; ++i) recalculate_syntax(lines[i], i)
RECURSIVE recalculate_from(_, _)
recalculate_from(b, i) ==
    IF i >= Len(b.lines) THEN b ELSE recalculate_from(recalculate_syntax(b, i), i + 1)

\* every istate back to 0 and every line painted anew (undo, redo, paste)
recalculate_all(b) ==
    recalculate_from([b EXCEPT !.istate = [k \in 1..Len(b.lines) |-> 0]], 0)

(* ----------------------------- journal --------------------------------- *)
Rec(type, lineno, offset, cp, old_cp, contents, old_contents, split) ==
    [type |-> type, lineno |-> lineno, offset |-> offset, codepoint |-> cp,
     old_codepoint |-> old_cp, contents |-> contents,
     old_contents |-> old_contents, split |-> split]

Sentinel == Rec(HISTORY_SENTINEL, 0, 0, 0, 0, EmptyLine, EmptyLine, 0)
BreakRec == Rec(HISTORY_BREAK, 0, 0, 0, 0, EmptyLine, EmptyLine, 0)

Recording(b) == ~b.loading /\ history_enabled

\* the record env->history points at
Cur(b) == b.history[b.hpos]

\* recursive_history_free(root): every record after the position is freed
recursive_history_free(b) == SubSeq(b.history, 1, b.hpos)

\* a faulty HIST_APPEND that links e after the position and keeps the records
\* that followed it; C8 must tell it from the real one
HIST_APPEND_keep(b, e) ==
    [b EXCEPT !.history = SubSeq(b.history, 1, b.hpos) \o <<e>>
                          \o SubSeq(b.history, b.hpos + 1, Len(b.history)),
              !.hpos = b.hpos + 1]

\* HIST_APPEND(e).  e was allocated by the caller before the free, so it can
\* take the address of a record freed earlier (b.reuse), never of one freed
\* by this very call.
HIST_APPEND(b, e) ==
    LET frees_save == b.last_save_history # DANGLING /\ b.last_save_history > b.hpos
    IN [b EXCEPT !.history = Append(recursive_history_free(b), e),
                 !.hpos = b.hpos + 1,
                 !.last_save_history =
                     IF frees_save THEN DANGLING
                     ELSE IF @ = DANGLING /\ b.reuse THEN b.hpos + 1
                     ELSE @,
                 !.reuse = IF b.last_save_history = DANGLING THEN FALSE ELSE @]

set_history_break(b) ==
    IF ~history_enabled THEN b
    ELSE IF Cur(b).type # HISTORY_BREAK /\ Cur(b).type # HISTORY_SENTINEL
         THEN HIST_APPEND(b, BreakRec)
         ELSE b

(* -------------------------- edit primitives ---------------------------- *)
Crash(b) == [b EXCEPT !.crashed = TRUE]

ValidLine(b, ln) == ln >= 0 /\ ln < line_count(b)

Pad(t, n) == IF n > Len(t) THEN t \o [k \in 1..(n - Len(t)) |-> 0] ELSE t

\* the cell array after line_insert's memmove and store.  text[-1], text[-2]
\* and text[-3] are the ints rev_status, is_current and istate that precede
\* text[] in line_t; they only steer the display and are not in the state, so
\* a store at such an offset leaves every cell as it was.  Bounded keeps
\* actual above -3, which keeps every offset above the field `actual`.
InsertCells(t, a, c, off) ==
    LET n == Max(Len(t), Max(a, off) + 1)
        p == Pad(t, n)
    IN [k \in 1..n |->
           LET i == k - 1 IN
           IF i = off THEN c
           ELSE IF off < a /\ i > off /\ i <= a THEN CellAt(p, i - 1)
           ELSE p[k]]

\* line_insert(line, c, offset, lineno)
line_insert(b, ln, c, off) ==
    IF b.crashed THEN b
    ELSE IF ~ValidLine(b, ln) THEN Crash(b)
    ELSE LET line == b.lines[ln + 1]
             b1 == IF Recording(b)
                   THEN HIST_APPEND(b, Rec(HISTORY_INSERT, ln, off, c, 0, EmptyLine, EmptyLine, 0))
                   ELSE b
         IN Recalculated([b1 EXCEPT !.lines[ln + 1] =
                            [actual |-> line.actual + 1,
                             text |-> InsertCells(line.text, line.actual, c, off)]], ln)

\* the cell array after line_delete's memmove
DeleteCells(t, a, off) ==
    [k \in 1..Len(t) |->
        LET i == k - 1 IN
        IF off < a /\ i >= off - 1 /\ i <= a - 2 THEN CellAt(t, i + 1) ELSE t[k]]

\* line_delete(line, offset, lineno)
line_delete(b, ln, off) ==
    IF b.crashed THEN b
    ELSE IF ~ValidLine(b, ln) THEN Crash(b)
    ELSE IF off = 0 THEN b
    ELSE LET line == b.lines[ln + 1]
             b1 == IF Recording(b)
                   THEN HIST_APPEND(b, Rec(HISTORY_DELETE, ln, off, 0,
                                           CellAt(line.text, off - 1), EmptyLine, EmptyLine, 0))
                   ELSE b
         IN recalculate_syntax([b1 EXCEPT !.lines[ln + 1] =
                                  [actual |-> line.actual - 1,
                                   text |-> DeleteCells(line.text, line.actual, off)]], ln)

\* line_replace(line, c, offset, lineno)
line_replace(b, ln, c, off) ==
    IF b.crashed THEN b
    ELSE IF ~ValidLine(b, ln) THEN Crash(b)
    ELSE LET line == b.lines[ln + 1]
             b1 == IF Recording(b)
                   THEN HIST_APPEND(b, Rec(HISTORY_REPLACE, ln, off, c,
                                           CellAt(line.text, off), EmptyLine, EmptyLine, 0))
                   ELSE b
             p == Pad(line.text, off + 1)
         IN Recalculated([b1 EXCEPT !.lines[ln + 1] =
                            [actual |-> line.actual,
                             text |-> [k \in 1..Len(p) |-> IF k - 1 = off THEN c ELSE p[k]]]],
                         ln)

\* the loop of remove_line that empties the only line of a buffer
RECURSIVE clear_line(_, _)
clear_line(b, ln) ==
    IF b.crashed \/ b.lines[ln + 1].actual <= 0 THEN b
    ELSE clear_line(line_delete(b, ln, b.lines[ln + 1].actual), ln)

RemoveAt(s, k) == SubSeq(s, 1, k - 1) \o SubSeq(s, k + 1, Len(s))
InsertAt(s, k, x) == SubSeq(s, 1, k - 1) \o <<x>> \o SubSeq(s, k, Len(s))

\* a faulty remove_line without the line_count == 1 case; C5 must tell it
\* from the real one
remove_line_all(b, off) ==
    IF b.crashed THEN b
    ELSE IF ~ValidLine(b, off) THEN Crash(b)
    ELSE [b EXCEPT !.lines = RemoveAt(@, off + 1), !.flags = RemoveAt(@, off + 1),
                   !.istate = RemoveAt(@, off + 1)]

\* remove_line(lines, offset)
remove_line(b, off) ==
    IF b.crashed THEN b
    ELSE IF ~ValidLine(b, off) THEN Crash(b)
    ELSE IF line_count(b) = 1 THEN clear_line(b, off)
    ELSE LET b1 == IF Recording(b)
                   THEN HIST_APPEND(b, Rec(HISTORY_REMOVE_LINE, off, 0, 0, 0,
                                           EmptyLine, b.lines[off + 1], 0))
                   ELSE b
         IN [b1 EXCEPT !.lines = RemoveAt(@, off + 1), !.flags = RemoveAt(@, off + 1),
                        !.istate = RemoveAt(@, off + 1)]

\* add_line(lines, offset)
add_line(b, off) ==
    IF b.crashed THEN b
    ELSE IF off > line_count(b) THEN b
    ELSE IF off < 0 THEN Crash(b)
    ELSE LET b1 == IF Recording(b)
                   THEN HIST_APPEND(b, Rec(HISTORY_ADD_LINE, off, 0, 0, 0,
                                           EmptyLine, EmptyLine, 0))
                   ELSE b
             b2 == [b1 EXCEPT !.lines = InsertAt(@, off + 1, EmptyLine),
                              !.flags = InsertAt(@, off + 1, <<>>),
                              !.istate = InsertAt(@, off + 1, 0)]
         IN IF off > 0 THEN Recalculated(b2, off - 1) ELSE b2

\* replace_line(lines, offset, replacement); a negative length makes the
\* memcpy size wrap around and the process faults
replace_line(b, off, replacement) ==
    IF b.crashed THEN b
    ELSE IF ~ValidLine(b, off) THEN Crash(b)
    ELSE LET line == b.lines[off + 1]
             b1 == IF Recording(b)
                   THEN HIST_APPEND(b, Rec(HISTORY_REPLACE_LINE, off, 0, 0, 0,
                                           replacement, line, 0))
                   ELSE b
             n == Max(Len(line.text), replacement.actual)
             p == Pad(line.text, n)
         IN IF replacement.actual < 0 THEN Crash(b1)
            ELSE Recalculated(
                   [b1 EXCEPT !.lines[off + 1] =
                      [actual |-> replacement.actual,
                       text |-> [k \in 1..n |-> IF k <= replacement.actual
                                                THEN replacement.text[k] ELSE p[k]]]], off)

\* merge_lines(lines, lineb)
merge_lines(b, lineb) ==
    IF b.crashed THEN b
    ELSE IF ~ValidLine(b, lineb) \/ ~ValidLine(b, lineb - 1) THEN Crash(b)
    ELSE LET linea == lineb - 1
             la == b.lines[linea + 1]
             lb == b.lines[lineb + 1]
             b1 == IF Recording(b)
                   THEN HIST_APPEND(b, Rec(HISTORY_MERGE_LINES, lineb, 0, 0, 0,
                                           EmptyLine, EmptyLine, la.actual))
                   ELSE b
             n == Max(Len(la.text), la.actual + lb.actual)
             p == Pad(la.text, n)
             merged == [actual |-> la.actual + lb.actual,
                        text |-> [k \in 1..n |->
                                    LET i == k - 1 IN
                                    IF i >= la.actual /\ i < la.actual + lb.actual
                                    THEN CellAt(lb.text, i - la.actual) ELSE p[k]]]
         IN IF lb.actual < 0 THEN Crash(b1)
            ELSE LET b2 == Recalculated([b1 EXCEPT !.lines[linea + 1] = merged], linea)
                 IN [b2 EXCEPT !.lines = RemoveAt(@, lineb + 1),
                               !.flags = RemoveAt(@, lineb + 1),
                               !.istate = RemoveAt(@, lineb + 1)]

\* split_line(lines, line, split)
split_line(b, ln, split) ==
    IF b.crashed THEN b
    ELSE IF split = 0 THEN add_line(b, ln)
    ELSE IF ~ValidLine(b, ln) THEN Crash(b)
    ELSE LET line == b.lines[ln + 1]
             b1 == IF Recording(b)
                   THEN HIST_APPEND(b, Rec(HISTORY_SPLIT_LINE, ln, 0, 0, 0,
                                           EmptyLine, EmptyLine, split))
                   ELSE b
             remaining == line.actual - split
             right == [actual |-> remaining,
                       text |-> [k \in 1..Max(remaining, 0) |-> CellAt(line.text, split + k - 1)]]
             left == [actual |-> split, text |-> line.text]
         IN IF remaining < 0 THEN Crash(b1)
            ELSE LET count == Len(b1.lines)
                     b2 == [b1 EXCEPT !.lines = InsertAt([@ EXCEPT ![ln + 1] = left], ln + 2, right),
                                      !.flags = InsertAt(@, ln + 2, <<>>),
                                      !.istate = InsertAt(@, ln + 2, 0)]
                 IN IF b.loading THEN b2
                    ELSE recalculate_syntax_in(recalculate_syntax_in(b2, ln, count),
                                               ln + 1, count)

(* ------------------------- cursor and flags ---------------------------- *)
Msg(b, m) == [b EXCEPT !.message = m]

\* set_modified()
set_modified(b) == IF b.modified THEN b ELSE [b EXCEPT !.modified = TRUE]

is_paren(c) == \E i \in 1..Len(paren_pairs) : paren_pairs[i] = c

\* no match: the out parameters keep the -1 of the caller
NoMatch == [line |-> 0 - 1, col |-> 0 - 1]

\* a faulty scan that counts the brackets of every syntax class; C19 must tell
\* it from the real one
RECURSIVE paren_scan_any(_, _, _, _, _, _, _, _)
paren_scan_any(b, line, col, count, start, paren_match, flags, direction) ==
    IF col > 0 /\ col < b.lines[line].actual + 1
    THEN LET cp == CellAt(b.lines[line].text, col - 1)
             up == IF cp = start THEN count + 1 ELSE count
             down == IF cp = paren_match THEN up - 1 ELSE up
         IN IF cp = paren_match /\ down = 0 THEN [line |-> line, col |-> col]
            ELSE paren_scan_any(b, line, col + direction, down, start, paren_match, flags,
                                direction)
    ELSE LET next == line + direction
         IN IF next = 0 \/ next = Len(b.lines) + 1 THEN NoMatch
            ELSE paren_scan_any(b, next, IF direction > 0 THEN 1 ELSE b.lines[next].actual,
                                count, start, paren_match, flags, direction)

\* the scan loop of find_matching_paren, from cell col of line `line` on
RECURSIVE paren_scan(_, _, _, _, _, _, _, _)
paren_scan(b, line, col, count, start, paren_match, flags, direction) ==
    IF col > 0 /\ col < b.lines[line].actual + 1
    THEN LET same == FlagAt(b, line, col - 1) % 16 = flags
             cp == CellAt(b.lines[line].text, col - 1)
             \* count after the cell: up for start, down for paren_match
             After(down) ==
                 IF same /\ cp = paren_match /\ down = 0 THEN [line |-> line, col |-> col]
                 ELSE paren_scan(b, line, col + direction, down, start, paren_match,
                                 flags, direction)
         IN After(count + (IF same /\ cp = start THEN 1 ELSE 0)
                        - (IF same /\ cp = paren_match THEN 1 ELSE 0))
    ELSE LET next == line + direction
         IN IF next = 0 \/ next = Len(b.lines) + 1 THEN NoMatch
            ELSE paren_scan(b, next, IF direction > 0 THEN 1 ELSE b.lines[next].actual,
                            count, start, paren_match, flags, direction)

\* find_matching_paren(&line, &col, in_col)
find_matching_paren(b, in_col) ==
    LET start == CellAt(b.lines[b.line_no].text, b.col_no - in_col)
        flags == FlagAt(b, b.line_no, b.col_no - in_col) % 16
        at == {i \in 1..Len(paren_pairs) : paren_pairs[i] = start}
        \* i: the first place of start in paren_pairs
        From(i) ==
            paren_scan(b, b.line_no, b.col_no - in_col + 1, 0, start,
                       paren_pairs[(IF i % 2 = 0 THEN i + 1 ELSE i - 1) + 1], flags,
                       IF i % 2 = 0 THEN 1 ELSE 0 - 1)
    IN IF b.col_no - in_col + 1 > b.lines[b.line_no].actual THEN NoMatch
       ELSE IF at = {} THEN NoMatch
       ELSE From((CHOOSE k \in at : \A m \in at : k <= m) - 1)

\* a faulty highlight that never takes a mark off; C20 must tell it from the
\* real one
highlight_matching_paren_kept(b) ==
    IF b.mode = MODE_LINE_SELECTION \/ b.mode = MODE_CHAR_SELECTION THEN b
    ELSE LET text == b.lines[b.line_no].text
             found == IF b.col_no <= b.lines[b.line_no].actual
                               /\ is_paren(CellAt(text, b.col_no - 1))
                        THEN find_matching_paren(b, 1)
                      ELSE IF b.col_no > 1 /\ is_paren(CellAt(text, b.col_no - 2))
                        THEN find_matching_paren(b, 2)
                      ELSE NoMatch
             Mark(l, j, f) == IF l = found.line /\ j = found.col THEN With(f, FLAG_SELECT)
                              ELSE f
         IN Reflagged(b, Mark)

\* highlight_matching_paren()
highlight_matching_paren(b) ==
    LET Marked(found) ==
            LET Mark(l, j, f) == IF l = found.line /\ j = found.col
                                   THEN With(f, FLAG_SELECT)
                                 ELSE Without(f, FLAG_SELECT)
            IN IF ~(b.highlighting_paren \/ found.line # 0 - 1) THEN b
               ELSE [Reflagged(b, Mark) EXCEPT
                        !.highlighting_paren = (found.line # 0 - 1)]
        valid == b.line_no <= Len(b.lines)
    IN IF b.mode = MODE_LINE_SELECTION \/ b.mode = MODE_CHAR_SELECTION THEN b
       ELSE IF ~highlight_parens THEN b
       ELSE Marked(IF valid /\ b.col_no <= b.lines[b.line_no].actual
                         /\ is_paren(CellAt(b.lines[b.line_no].text, b.col_no - 1))
                     THEN find_matching_paren(b, 1)
                   ELSE IF valid /\ b.col_no > 1
                             /\ is_paren(CellAt(b.lines[b.line_no].text, b.col_no - 2))
                     THEN find_matching_paren(b, 2)
                   ELSE NoMatch)

\* place_cursor_actual(): the position fix-up and the paren highlight (the
\* viewport is not in the state)
place_cursor_actual(b) ==
    IF b.crashed THEN b
    ELSE highlight_matching_paren([b EXCEPT !.line_no = IF @ < 1 THEN 1 ELSE @,
                                            !.col_no = IF @ < 1 THEN 1 ELSE @])

CurLine(b) == b.lines[b.line_no]

RECURSIVE SumTo(_, _)
SumTo(ws, n) == IF n <= 0 THEN 0 ELSE ws[n] + SumTo(ws, n - 1)

\* set_preferred_column()
set_preferred_column(b) ==
    LET line == CurLine(b)
        n == Min(Max(line.actual, 0), Max(b.col_no - 1, 0))
    IN [b EXCEPT !.preferred_column = SumTo(recalculate_tabs(line), n)]

\* the column search shared by cursor_down and cursor_up, on the new line
VerticalColumn(b) ==
    LET line == CurLine(b)
        ws == recalculate_tabs(line)
        hits == {i \in 1..Len(ws) : SumTo(ws, i) > b.preferred_column}
        lim == line.actual + (IF b.mode = MODE_INSERT THEN 1 ELSE 0)
        Placed(col2) ==
            place_cursor_actual(
              [b EXCEPT !.col_no = IF col2 > lim THEN (IF lim = 0 THEN 1 ELSE lim) ELSE col2])
        \* first: the first cell past the preferred column, 0 if none
        Stopped(first, x) ==
            Placed(IF b.mode = MODE_INSERT /\ x <= b.preferred_column THEN line.actual + 1
                   ELSE IF first # 0 THEN first
                   ELSE IF Len(ws) > 0 THEN Len(ws) ELSE b.col_no)
        From(first) == Stopped(first, SumTo(ws, IF first = 0 THEN Len(ws) ELSE first))
    IN From(IF hits = {} THEN 0 ELSE CHOOSE i \in hits : \A j \in hits : i <= j)

\* cursor_down() with a call of set_preferred_column() after the move
cursor_down_resetting(b) ==
    IF b.line_no < line_count(b)
    THEN set_preferred_column(VerticalColumn([b EXCEPT !.line_no = @ + 1])) ELSE b

\* cursor_down()
cursor_down(b) ==
    IF b.line_no < line_count(b) THEN VerticalColumn([b EXCEPT !.line_no = @ + 1]) ELSE b

\* cursor_up()
cursor_up(b) ==
    IF b.line_no > 1 THEN VerticalColumn([b EXCEPT !.line_no = @ - 1]) ELSE b

\* cursor_left()
cursor_left(b) ==
    set_preferred_column(IF b.col_no > 1
                         THEN place_cursor_actual([b EXCEPT !.col_no = @ - 1]) ELSE b)

\* cursor_right()
cursor_right(b) ==
    LET ins == IF b.mode = MODE_INSERT THEN 1 ELSE 0
    IN set_preferred_column(IF b.col_no < CurLine(b).actual + ins
                            THEN place_cursor_actual([b EXCEPT !.col_no = @ + 1]) ELSE b)

\* cursor_home()
cursor_home(b) == place_cursor_actual(set_preferred_column([b EXCEPT !.col_no = 1]))

\* cursor_end()
cursor_end(b) ==
    LET ins == IF b.mode = MODE_INSERT THEN 1 ELSE 0
    IN place_cursor_actual(set_preferred_column([b EXCEPT !.col_no = CurLine(b).actual + ins]))

\* leave_insert()
leave_insert(b) ==
    LET b1 == IF b.col_no > CurLine(b).actual
              THEN set_preferred_column(
                     [b EXCEPT !.col_no = IF CurLine(b).actual = 0 THEN 1 ELSE CurLine(b).actual])
              ELSE b
    IN [set_history_break(b1) EXCEPT !.mode = MODE_NORMAL, !.redraw = FALSE]

(* ------------------------ character editing ---------------------------- *)
\* insert_char(c)
insert_char(b, c) ==
    IF c = 0 THEN Msg(b, "Inserted nil byte?")
    ELSE LET b1 == line_insert(b, b.line_no - 1, c, b.col_no - 1)
         IN set_modified([b1 EXCEPT !.col_no = @ + 1])

\* replace_char(c)
replace_char(b, c) ==
    IF b.col_no < 1 \/ b.col_no > CurLine(b).actual THEN b
    ELSE set_modified(line_replace(b, b.line_no - 1, c, b.col_no - 1))

\* delete_at_cursor(): backspace
\* a faulty delete_at_cursor that leaves the cursor at column 1 of the joined
\* line; C35 must tell it from the real one
delete_at_cursor_front(b) ==
    IF b.col_no > 1
    THEN place_cursor_actual(set_modified(
           [line_delete(b, b.line_no - 1, b.col_no - 1) EXCEPT !.col_no = @ - 1]))
    ELSE IF b.line_no > 1
    THEN LET Joined(b1) ==
                 IF b1.crashed THEN b1
                 ELSE place_cursor_actual(set_modified(set_preferred_column(
                        [b1 EXCEPT !.line_no = @ - 1, !.col_no = 1])))
         IN Joined(merge_lines(b, b.line_no - 1))
    ELSE b

delete_at_cursor(b) ==
    IF b.col_no > 1
    THEN place_cursor_actual(set_modified(
           [line_delete(b, b.line_no - 1, b.col_no - 1) EXCEPT !.col_no = @ - 1]))
    ELSE IF b.line_no > 1
    THEN LET tmp == b.lines[b.line_no - 1].actual
             Joined(b1) ==
                 IF b1.crashed THEN b1
                 ELSE place_cursor_actual(set_modified(set_preferred_column(
                        [b1 EXCEPT !.line_no = @ - 1, !.col_no = tmp + 1])))
         IN Joined(merge_lines(b, b.line_no - 1))
    ELSE b

\* the Delete key (CSI 3 ~) of handle_escape in Insert and Replace mode
delete_key(b) ==
    IF b.mode # MODE_INSERT /\ b.mode # MODE_REPLACE THEN b
    ELSE IF b.col_no < CurLine(b).actual + 1
    THEN place_cursor_actual(set_modified(line_delete(b, b.line_no - 1, b.col_no)))
    ELSE IF b.line_no < line_count(b)
    THEN place_cursor_actual(set_modified(merge_lines(b, b.line_no)))
    ELSE b

is_whitespace(c) == c = 32 \/ c = TAB

\* line_ends_with_brace(line); no cell carries FLAG_COMMENT without a lexer
line_ends_with_brace(line) ==
    LET t == Live(line)
        idx == {i \in 1..Len(t) : t[i] # 32}
        last == IF idx = {} THEN 0 ELSE CHOOSE i \in idx : \A j \in idx : j <= i
    IN last # 0 /\ (t[last] = 123 \/ t[last] = 58)

\* the copy loop of add_indent (no lexer: the branch that copies blanks)
RECURSIVE indent_copy(_, _, _, _)
indent_copy(b, new_line, old_line, i) ==
    IF b.crashed \/ i >= b.lines[old_line + 1].actual THEN b
    ELSE LET c == CellAt(b.lines[old_line + 1].text, i)
         IN IF is_whitespace(c)
            THEN indent_copy([line_insert(b, new_line, c, i) EXCEPT !.col_no = @ + 1],
                             new_line, old_line, i + 1)
            ELSE b

\* add_indent(new_line, old_line, ignore_brace); env->tabs is 1 in the model.
\* Its last recalculate_syntax(new_line) repeats that of line_insert.
add_indent(b, new_line, old_line, ignore_brace) ==
    IF ~b.indent \/ b.crashed THEN b
    ELSE LET was_whitespace(old) == \A k \in 1..Len(Live(old)) : is_whitespace(Live(old)[k])
             Cleared(b2) ==
                 IF b2.crashed THEN b2
                 ELSE IF was_whitespace(b2.lines[old_line + 1]) THEN clear_line(b2, old_line)
                 ELSE b2
             Braced(b1) ==
                 Cleared(IF old_line < new_line /\ ~ignore_brace
                            /\ line_ends_with_brace(b1.lines[old_line + 1])
                         THEN [line_insert(b1, new_line, TAB, b1.col_no - 1)
                                  EXCEPT !.col_no = @ + 1]
                         ELSE b1)
         IN Braced(indent_copy(b, new_line, old_line, 0))

\* insert_line_feed()
insert_line_feed(b) ==
    LET Indented(b2) == set_modified(add_indent(b2, b2.line_no - 1, b2.line_no - 2, FALSE))
        Fed(b1) ==
            IF b1.crashed THEN b1
            ELSE Indented(set_preferred_column([b1 EXCEPT !.col_no = 1, !.line_no = @ + 1]))
    IN Fed(IF b.col_no = CurLine(b).actual + 1
           THEN add_line(b, b.line_no)
           ELSE split_line(b, b.line_no - 1, b.col_no - 1))

(* ---------------------------- undo / redo ------------------------------ *)
At(b, l, c) == [b EXCEPT !.line_no = l, !.col_no = c]

\* a faulty undo step that reverts the edit and leaves the cursor where it
\* was; C7 must tell it from the real one
undo_record_still(b, e) ==
    CASE e.type = HISTORY_INSERT -> line_delete(b, e.lineno, e.offset + 1)
      [] e.type = HISTORY_DELETE -> line_insert(b, e.lineno, e.old_codepoint, e.offset - 1)
      [] e.type = HISTORY_REPLACE -> line_replace(b, e.lineno, e.old_codepoint, e.offset)
      [] e.type = HISTORY_REMOVE_LINE ->
           replace_line(add_line(b, e.lineno), e.lineno, e.old_contents)
      [] e.type = HISTORY_ADD_LINE -> remove_line(b, e.lineno)
      [] e.type = HISTORY_REPLACE_LINE -> replace_line(b, e.lineno, e.old_contents)
      [] e.type = HISTORY_SPLIT_LINE -> merge_lines(b, e.lineno + 1)
      [] e.type = HISTORY_MERGE_LINES -> split_line(b, e.lineno - 1, e.split)
      [] OTHER -> b

\* one case of the switch in undo_history
undo_record(b, e) ==
    CASE e.type = HISTORY_INSERT ->
           At(line_delete(b, e.lineno, e.offset + 1), e.lineno + 1, e.offset + 1)
      [] e.type = HISTORY_DELETE ->
           At(line_insert(b, e.lineno, e.old_codepoint, e.offset - 1), e.lineno + 1, e.offset + 2)
      [] e.type = HISTORY_REPLACE ->
           At(line_replace(b, e.lineno, e.old_codepoint, e.offset), e.lineno + 1, e.offset + 1)
      [] e.type = HISTORY_REMOVE_LINE ->
           At(replace_line(add_line(b, e.lineno), e.lineno, e.old_contents), e.lineno + 2, 1)
      [] e.type = HISTORY_ADD_LINE ->
           At(remove_line(b, e.lineno), e.lineno + 1, 1)
      [] e.type = HISTORY_REPLACE_LINE ->
           At(replace_line(b, e.lineno, e.old_contents), e.lineno + 1, 1)
      [] e.type = HISTORY_SPLIT_LINE ->
           At(merge_lines(b, e.lineno + 1), e.lineno + 2, 1)
      [] e.type = HISTORY_MERGE_LINES ->
           At(split_line(b, e.lineno - 1, e.split), e.lineno, 1)
      [] OTHER -> b

\* the do ... while (e->type != HISTORY_BREAK) loop of undo_history
RECURSIVE undo_loop(_)
undo_loop(b) ==
    IF b.crashed \/ Cur(b).type = HISTORY_SENTINEL THEN b
    ELSE LET Again(b1) ==
                 IF b1.crashed \/ Cur(b1).type = HISTORY_BREAK THEN b1 ELSE undo_loop(b1)
         IN Again([undo_record(b, Cur(b)) EXCEPT !.hpos = b.hpos - 1])

\* the tail shared by undo_history and redo_history
replay_finish(b) ==
    IF b.crashed THEN b
    ELSE LET l == IF b.line_no > line_count(b) THEN line_count(b) ELSE b.line_no
             a == b.lines[l].actual
             c == IF b.col_no > a THEN a ELSE b.col_no
         IN place_cursor_actual(
              recalculate_all([b EXCEPT !.line_no = l, !.col_no = c,
                                        !.modified = (b.hpos # b.last_save_history),
                                        !.loading = FALSE]))

\* undo_history()
undo_history(b) ==
    IF ~history_enabled THEN b
    ELSE IF Cur(b).type = HISTORY_SENTINEL THEN Msg(b, "Already at oldest change")
    ELSE Msg(replay_finish(undo_loop([b EXCEPT !.loading = TRUE])), "changed")

\* one case of the switch in redo_history
redo_record(b, e) ==
    CASE e.type = HISTORY_INSERT ->
           At(line_insert(b, e.lineno, e.codepoint, e.offset), e.lineno + 1, e.offset + 2)
      [] e.type = HISTORY_DELETE ->
           At(line_delete(b, e.lineno, e.offset), e.lineno + 1, e.offset + 1)
      [] e.type = HISTORY_REPLACE ->
           At(line_replace(b, e.lineno, e.codepoint, e.offset), e.lineno + 1, e.offset + 2)
      [] e.type = HISTORY_ADD_LINE ->
           At(add_line(b, e.lineno), e.lineno + 2, 1)
      [] e.type = HISTORY_REMOVE_LINE ->
           At(remove_line(b, e.lineno), e.lineno + 1, 1)
      [] e.type = HISTORY_REPLACE_LINE ->
           At(replace_line(b, e.lineno, e.contents), e.lineno + 2, 1)
      [] e.type = HISTORY_MERGE_LINES ->
           At(merge_lines(b, e.lineno), e.lineno + 1, 1)
      [] e.type = HISTORY_SPLIT_LINE ->
           At(split_line(b, e.lineno, e.split), e.lineno + 2, 1)
      [] OTHER -> b

\* the while (e) loop of redo_history
RECURSIVE redo_loop(_)
redo_loop(b) ==
    IF b.crashed \/ b.hpos >= Len(b.history) THEN b
    ELSE LET e == b.history[b.hpos + 1]
         IN IF e.type = HISTORY_BREAK THEN [b EXCEPT !.hpos = b.hpos + 1]
            ELSE redo_loop([redo_record(b, e) EXCEPT !.hpos = b.hpos + 1])

\* redo_history()
redo_history(b) ==
    IF ~history_enabled THEN b
    ELSE IF b.hpos >= Len(b.history) THEN Msg(b, "Already at newest change")
    ELSE Msg(replay_finish(redo_loop([b EXCEPT !.loading = TRUE])), "changed")

(* ---------------------------- yank register ---------------------------- *)
\* a yanked line is the copy of `count` cells starting at cell start_off
yank_partial_line(b, ln, start_off, count) ==
    [actual |-> count,
     text |-> [k \in 1..Max(count, 0) |-> CellAt(b.lines[ln + 1].text, start_off + k - 1)]]

YankWhole(b, ln) == yank_partial_line(b, ln, 0, b.lines[ln + 1].actual)

\* yank_lines(start, end): the new register contents
yank_lines(b, start, end) ==
    LET n == IF start <= end THEN end - start + 1 ELSE start - end + 1
        start_point == IF start <= end THEN start - 1 ELSE end - 1
    IN [i \in 1..n |-> YankWhole(b, start_point + i - 1)]

\* yank_text(start_line, start_col, end_line, end_col): the new register contents
yank_text(b, start_line, start_col, end_line, end_col) ==
    LET n == end_line - start_line + 1
        start_point == start_line - 1
    IN IF n = 1
       THEN <<yank_partial_line(b, start_point, start_col - 1, end_col - start_col + 1)>>
       ELSE [i \in 1..n |->
               IF i = 1 THEN yank_partial_line(b, start_point, start_col - 1,
                                               b.lines[start_point + 1].actual - start_col + 1)
               ELSE IF i = n THEN yank_partial_line(b, end_line - 1, 0, end_col)
               ELSE YankWhole(b, start_point + i - 1)]

\* a memcpy with a negative cell count: the size wraps and the process faults
YankFaults(y) == \E i \in 1..Len(y) : y[i].actual < 0

(* --------------------------- selection modes --------------------------- *)
\* a faulty loop that stops one line early; C13 must tell it from the real one
RECURSIVE remove_n_short(_, _, _)
remove_n_short(b, off, n) ==
    IF n <= 1 THEN b ELSE remove_n_short(remove_line(b, off), off, n - 1)

RECURSIVE remove_n(_, _, _)
remove_n(b, off, n) == IF n <= 0 THEN b ELSE remove_n(remove_line(b, off), off, n - 1)

RECURSIVE delete_n(_, _, _, _)
delete_n(b, ln, off, n) == IF n <= 0 THEN b ELSE delete_n(line_delete(b, ln, off), ln, off, n - 1)

ReadOnlyMsg(b) == Msg(b, "Buffer is read-only")

\* _leave_select_line / _leave_select_char, then the place_cursor_actual that
\* ends the key in normal_mode
leave_select(b) ==
    IF b.crashed THEN b
    ELSE place_cursor_actual(
           recalculate_from([set_history_break(b) EXCEPT !.mode = MODE_NORMAL], 0))

\* _leave_select_col, which paints no line anew
leave_select_col(b) ==
    IF b.crashed THEN b
    ELSE place_cursor_actual([set_history_break(b) EXCEPT !.mode = MODE_NORMAL])

ClampCol(b) ==
    IF b.col_no > CurLine(b).actual THEN [b EXCEPT !.col_no = CurLine(b).actual] ELSE b

\* line_selection_mode, case 'd'
line_selection_d(b) ==
    IF b.readonly THEN ReadOnlyMsg(b)
    ELSE IF YankFaults(yank_lines(b, b.start_line, b.line_no)) THEN Crash(b)
    ELSE LET Left(b1) ==
                 IF b1.crashed THEN b1
                 ELSE leave_select(set_modified(set_preferred_column(ClampCol(
                        IF b1.line_no > line_count(b1)
                        THEN [b1 EXCEPT !.line_no = line_count(b1)] ELSE b1))))
         IN Left(IF b.start_line <= b.line_no
                 THEN [remove_n(b, b.start_line - 1, b.line_no - b.start_line + 1)
                         EXCEPT !.line_no = b.start_line]
                 ELSE remove_n(b, b.line_no - 1, b.start_line - b.line_no + 1))

\* line_selection_mode, case 'y'
line_selection_y(b) ==
    IF YankFaults(yank_lines(b, b.start_line, b.line_no)) THEN Crash(b) ELSE leave_select(b)

SelTop(b) == Min(b.start_line, b.line_no)
SelBot(b) == Max(b.start_line, b.line_no)

\* every live cell of the line gets FLAG_SELECT
select_line(b, line) ==
    LET Mark(l, j, f) == IF l = line THEN With(f, FLAG_SELECT) ELSE f
    IN Reflagged(b, Mark)

\* _redraw_line(line, force_start_line) of line_selection_mode
redraw_line_select(b, line, force_start_line) ==
    IF b.crashed \/ (~force_start_line /\ line = b.start_line) THEN b
    ELSE IF line > Len(b.lines) + 1 THEN b
    ELSE IF line > Len(b.lines) THEN Crash(b)
    ELSE IF line < SelTop(b) \/ line > SelBot(b) THEN recalculate_syntax(b, line - 1)
    ELSE select_line(b, line)

\* point_in_range(start_line, end_line, start_col, end_col, line, col)
point_in_range(start_line, end_line, start_col, end_col, line, col) ==
    IF start_line = end_line
      THEN col >= Min(start_col, end_col) /\ col <= Max(start_col, end_col)
    ELSE LET sl == Min(start_line, end_line)
             el == Max(start_line, end_line)
             sc == IF start_line > end_line THEN end_col ELSE start_col
             ec == IF start_line > end_line THEN start_col ELSE end_col
         IN IF line < sl \/ line > el THEN FALSE
            ELSE IF line = sl THEN col >= sc
            ELSE IF line = el THEN col <= ec
            ELSE TRUE

\* _redraw_line_char(line, 1) of char_selection_mode
redraw_line_char(b, line) ==
    IF b.crashed \/ line > Len(b.lines) + 1 THEN b
    ELSE IF line > Len(b.lines) THEN Crash(b)
    ELSE IF line < SelTop(b) \/ line > SelBot(b) THEN recalculate_syntax(b, line - 1)
    ELSE LET b1 == IF line = b.start_line \/ line = b.line_no
                   THEN recalculate_syntax(b, line - 1) ELSE b
             Mark(l, j, f) ==
                 IF l = line /\ point_in_range(b.start_line, b.line_no, b.start_col,
                                               b.col_no, line, j)
                 THEN With(f, FLAG_SELECT) ELSE f
         IN Reflagged(b1, Mark)

RECURSIVE redraw_lines(_, _, _)
redraw_lines(b, i, last) ==
    IF i > last THEN b
    ELSE redraw_lines(IF b.mode = MODE_LINE_SELECTION THEN redraw_line_select(b, i, FALSE)
                      ELSE redraw_line_char(b, i), i + 1, last)

\* the marking that ends a key of line_selection_mode and char_selection_mode;
\* prev_line is the cursor line before the key
selection_redraw(b, prev_line) ==
    IF b.crashed \/ b.mode \notin {MODE_LINE_SELECTION, MODE_CHAR_SELECTION} THEN b
    ELSE LET Swept(b1) ==
                 IF prev_line < b.line_no THEN redraw_lines(b1, prev_line, b.line_no - 1)
                 ELSE IF prev_line > b.line_no THEN redraw_lines(b1, b.line_no + 1, prev_line)
                 ELSE b1
         IN Swept(redraw_lines(b, b.line_no, b.line_no))

\* the per-line step of adjust_indent (env->tabs is 1 in the model)
RECURSIVE adjust_lines(_, _, _, _)
adjust_lines(b, i, last, direction) ==
    IF i > last \/ b.crashed THEN b
    ELSE LET line == b.lines[i + 1]
             b1 == IF direction = 0 - 1
                   THEN IF line.actual < 1 THEN b
                        ELSE IF CellAt(line.text, 0) = TAB
                          THEN redraw_line_select(line_delete(b, i, 1), i + 1, TRUE)
                        ELSE b
                   ELSE redraw_line_select(line_insert(b, i, TAB, 0), i + 1, TRUE)
         IN adjust_lines(b1, i + 1, last, direction)

\* adjust_indent(start_line, direction)
adjust_indent(b, direction) ==
    LET Adjusted(b1) ==
            IF b1.crashed THEN b1 ELSE set_modified(set_preferred_column(ClampCol(b1)))
    IN Adjusted(adjust_lines(b, SelTop(b) - 1, SelBot(b) - 1, direction))

\* line_selection_mode, case '\t' (direction 1) and Shift-Tab (direction -1)
line_selection_indent(b, direction) ==
    IF b.readonly THEN ReadOnlyMsg(b)
    ELSE place_cursor_actual(selection_redraw(adjust_indent(b, direction), b.line_no))

\* the selection of char_selection_mode in document order
CharSel(b) ==
    LET fwd == b.start_line < b.line_no \/ (b.start_line = b.line_no /\ b.start_col <= b.col_no)
    IN IF fwd THEN [sl |-> b.start_line, sc |-> b.start_col, el |-> b.line_no, ec |-> b.col_no]
       ELSE [sl |-> b.line_no, sc |-> b.col_no, el |-> b.start_line, ec |-> b.start_col]

char_selection_yank(b) == LET r == CharSel(b) IN yank_text(b, r.sl, r.sc, r.el, r.ec)

\* char_selection_mode, case 'y'
char_selection_y(b) ==
    IF YankFaults(char_selection_yank(b)) THEN Crash(b) ELSE leave_select(b)

\* char_selection_mode, case 'd'
char_selection_d(b) ==
    IF b.readonly THEN ReadOnlyMsg(b)
    ELSE IF YankFaults(char_selection_yank(b)) THEN Crash(b)
    ELSE LET r == CharSel(b)
             \* m: the lines between the first and the last are removed
             Ends(m) ==
                 delete_n(delete_n(m, r.sl - 1, r.sc, m.lines[r.sl].actual - r.sc + 1),
                          r.sl, 1, r.ec)
             Left(b1) ==
                 IF b1.crashed THEN b1
                 ELSE leave_select(set_modified(set_preferred_column(
                        IF b1.line_no > line_count(b1)
                        THEN [b1 EXCEPT !.line_no = line_count(b1)] ELSE b1)))
         IN Left(IF r.sl = r.el
                 THEN [delete_n(b, r.sl - 1, r.sc, r.ec - r.sc + 1) EXCEPT !.col_no = r.sc]
                 ELSE [merge_lines(Ends(remove_n(b, r.sl, r.el - r.sl - 1)), r.sl)
                          EXCEPT !.line_no = r.sl, !.col_no = r.sc])

(* -------------------------------- paste -------------------------------- *)
RECURSIVE insert_cells(_, _, _, _, _)
insert_cells(b, ln, line, off, i) ==
    IF i >= line.actual THEN b
    ELSE insert_cells(line_insert(b, ln, CellAt(line.text, i), off + i), ln, line, off, i + 1)

RECURSIVE add_n(_, _, _)
add_n(b, off, n) == IF n <= 0 THEN b ELSE add_n(add_line(b, off), off, n - 1)

RECURSIVE replace_from(_, _, _, _, _)
replace_from(b, off, yanks, i, last) ==
    IF i > last THEN b
    ELSE replace_from(replace_line(b, off + i - 1, yanks[i]), off, yanks, i + 1, last)

\* normal_mode, cases 'P' (before = TRUE) and 'p'
paste(b, yanks, full, before) ==
    IF b.readonly THEN ReadOnlyMsg(b)
    ELSE IF Len(yanks) = 0 THEN b
    ELSE LET n == Len(yanks)
             tc0 == IF before THEN b.col_no ELSE b.col_no + 1
             tc == IF tc0 > CurLine(b).actual + 1 THEN CurLine(b).actual + 1 ELSE tc0
             at == b.line_no - (IF before THEN 1 ELSE 0)
             \* s2: the first yanked line is in, at the head of the split line
             Others(s2) ==
                 IF n > 1
                 THEN insert_cells(replace_from(add_n(s2, b.line_no, n - 2),
                                                b.line_no - 1, yanks, 2, n - 1),
                                   b.line_no + n - 2, yanks[n], 0, 0)
                 ELSE s2
             \* b1r: every line painted anew; the cursor goes past the pasted text
             Moved(b1r) ==
                 IF before THEN b1r
                 ELSE IF full THEN [b1r EXCEPT !.line_no = @ + 1]
                 ELSE IF n = 1 THEN [b1r EXCEPT !.col_no = @ + yanks[1].actual]
                 ELSE [b1r EXCEPT !.line_no = @ + n - 1, !.col_no = yanks[n].actual]
             Pasted(b1) ==
                 IF b1.crashed THEN b1
                 ELSE place_cursor_actual(set_modified(set_history_break(
                        Moved(recalculate_all(b1)))))
         IN Pasted(IF ~full
                   THEN Others(insert_cells(IF n > 1 THEN split_line(b, b.line_no - 1, tc - 1)
                                            ELSE b,
                                            b.line_no - 1, yanks[1], tc - 1, 0))
                   ELSE replace_from(add_n(b, at, n), at, yanks, 1, n))

(* ---------------------------- replace mode ----------------------------- *)
\* replace_mode, default case: a printable key
replace_mode_char(b, c) ==
    place_cursor_actual(IF b.col_no <= CurLine(b).actual
                        THEN [replace_char(b, c) EXCEPT !.col_no = @ + 1]
                        ELSE insert_char(b, c))

\* replace_mode, case ENTER_KEY
replace_mode_enter(b) ==
    LET Fed(b1) == IF b1.crashed THEN b1 ELSE place_cursor_actual(set_modified(b1))
    IN Fed(insert_line_feed(b))

\* replace_mode and normal_mode, case BACKSPACE_KEY
backspace_move(b) ==
    IF b.line_no > 1 /\ b.col_no = 1
    THEN place_cursor_actual(set_preferred_column(
           [b EXCEPT !.line_no = @ - 1, !.col_no = b.lines[b.line_no - 1].actual]))
    ELSE cursor_left(b)

\* replace_one(): `r` followed by the key c
replace_one(b, c) == replace_char(b, c)

(* ------------------------- column insert mode -------------------------- *)
\* the scan of one line in col_insert_mode: where the for loop stops
ColScan(line, sel_col) ==
    LET ws == recalculate_tabs(line)
        hits == {k \in 1..Len(ws) : SumTo(ws, k) > sel_col}
        \* first: the first cell past sel_col, 0 if none; last: where the loop stops
        Stopped(first, last) ==
            [x |-> SumTo(ws, last),
             col |-> IF last = 0 THEN 1 ELSE last,
             j |-> IF first # 0 THEN first - 1 ELSE Len(ws),
             seen |-> last > 0,
             width |-> IF last > 0 THEN ws[last] ELSE 0]
        From(first) == Stopped(first, IF first # 0 THEN first ELSE Len(ws))
    IN From(IF hits = {} THEN 0 ELSE CHOOSE k \in hits : \A m \in hits : k <= m)

\* col_insert_mode, default case: insert c on every line of the block
RECURSIVE col_insert_lines(_, _, _)
col_insert_lines(b, i, c) ==
    IF i > b.start_line \/ b.crashed THEN b
    ELSE LET line == b.lines[i]
             Inserted(s) ==
                 IF s.x = b.sel_col /\ s.j = line.actual
                 THEN set_modified(line_insert(b, i - 1, c, line.actual))
                 ELSE IF s.x > b.sel_col
                 THEN set_modified(line_insert(b, i - 1, c, s.col - 1))
                 ELSE b
         IN col_insert_lines(Inserted(ColScan(line, b.sel_col)), i + 1, c)

col_insert_char(b, c) ==
    LET Widened(b1) ==
            IF b1.crashed THEN b1 ELSE [b1 EXCEPT !.sel_col = @ + codepoint_width(c)]
    IN Widened(col_insert_lines(b, b.line_no, c))

\* col_insert_mode, case BACKSPACE_KEY; the record carries prev_width
RECURSIVE col_delete_lines(_, _, _)
col_delete_lines(b, i, prev_width) ==
    IF i > b.start_line \/ b.crashed THEN [b |-> b, prev_width |-> prev_width]
    ELSE LET line == b.lines[i]
             Deleted(s) ==
                 col_delete_lines(IF s.x = b.sel_col /\ s.j = line.actual
                                  THEN set_modified(line_delete(b, i - 1, line.actual))
                                  ELSE IF s.x > b.sel_col
                                  THEN set_modified(line_delete(b, i - 1, s.col - 1))
                                  ELSE b,
                                  i + 1, IF s.seen THEN s.width ELSE prev_width)
         IN Deleted(ColScan(line, b.sel_col))

col_insert_backspace(b) ==
    LET Narrowed(r) ==
            IF r.b.crashed THEN r.b ELSE [r.b EXCEPT !.sel_col = @ - r.prev_width]
    IN IF b.sel_col > 0 THEN Narrowed(col_delete_lines(b, b.line_no, 0)) ELSE b

\* col_selection_mode()
col_selection_mode(b) ==
    [b EXCEPT !.start_line = b.line_no, !.sel_col = b.preferred_column,
              !.mode = MODE_COL_SELECTION]

\* col_insert_mode(): entry
col_insert_mode(b) ==
    LET b1 == IF b.start_line < b.line_no
              THEN [b EXCEPT !.line_no = b.start_line, !.start_line = b.line_no]
              ELSE b
    IN place_cursor_actual([b1 EXCEPT !.mode = MODE_COL_INSERT])

\* col_selection_mode, cases 'I' (after = FALSE) and 'a'
col_selection_insert(b, after) ==
    IF b.readonly THEN Msg(b, "Buffer is read-only.")
    ELSE col_insert_mode(IF after THEN [b EXCEPT !.sel_col = @ + 1] ELSE b)

(* ----------------------------- commands -------------------------------- *)
\* tolower, for the ASCII letters
tolower(c) == IF c \in 65..90 THEN c + 32 ELSE c

\* search_matches(a, b, mode)
search_matches(a, c, mode) ==
    IF mode = 0 THEN a = c
    ELSE IF mode = 1 THEN tolower(a) = tolower(c)
    ELSE FALSE

\* the column perform_replacement finds the needle at, from col on; -1 if none
\* (its inner loop reaches the terminator of the needle only while k <= actual)
FindMatch(line, needle, col, ignorecase) ==
    LET n == Len(needle)
        hits == {j \in Max(col, 0)..(line.actual - n) :
                   \A i \in 1..n :
                      search_matches(needle[i], CellAt(line.text, j + i - 1), ignorecase)}
    IN IF hits = {} THEN 0 - 1 ELSE CHOOSE j \in hits : \A m \in hits : j <= m

RECURSIVE insert_seq(_, _, _, _, _)
insert_seq(b, ln, r, j, t) ==
    IF t >= Len(r) THEN b ELSE insert_seq(line_insert(b, ln, r[t + 1], j + t), ln, r, j, t + 1)

\* perform_replacement(line_no, needle, replacement, col, ignorecase, &out_col)
perform_replacement(b, line_no, needle, replacement, col, ignorecase) ==
    LET j == FindMatch(b.lines[line_no], needle, col, ignorecase)
    IN IF j = 0 - 1 THEN [b |-> b, out_col |-> 0 - 1]
       ELSE [b |-> set_modified(insert_seq(delete_n(b, line_no - 1, j + 1, Len(needle)),
                                           line_no - 1, replacement, j, 0)),
             out_col |-> j + Len(replacement)]

\* a faulty loop that forgets `g`; C14 must tell it from the real one
replace_in_line_once(b, line_no, needle, replacement, col, global, ignorecase, replacements) ==
    LET r == perform_replacement(b, line_no, needle, replacement, col, ignorecase)
    IN IF r.out_col = 0 - 1 \/ b.crashed THEN [b |-> b, replacements |-> replacements]
       ELSE [b |-> r.b, replacements |-> replacements + 1]

\* the while (col != -1) loop of the `s` command on one line.  An empty needle
\* matches at every column up to actual, and the line grows with the column:
\* with `g` the loop never ends once it has matched, and the process is lost.
RECURSIVE replace_in_line(_, _, _, _, _, _, _, _)
replace_in_line(b, line_no, needle, replacement, col, global, ignorecase, replacements) ==
    LET Replaced(r) ==
            IF r.out_col = 0 - 1 \/ b.crashed THEN [b |-> b, replacements |-> replacements]
            ELSE IF ~global THEN [b |-> r.b, replacements |-> replacements + 1]
            ELSE IF needle = <<>> THEN [b |-> Crash(r.b), replacements |-> replacements + 1]
            ELSE replace_in_line(r.b, line_no, needle, replacement, r.out_col, global,
                                 ignorecase, replacements + 1)
    IN Replaced(perform_replacement(b, line_no, needle, replacement, col, ignorecase))

\* a faulty loop that leaves out the last line of the range; C15 must tell it
\* from the real one
RECURSIVE replace_in_range_short(_, _, _, _, _, _, _, _)
replace_in_range_short(b, line, range_bot, needle, replacement, global, ignorecase, replacements) ==
    IF line >= range_bot \/ b.crashed THEN [b |-> b, replacements |-> replacements]
    ELSE LET r == replace_in_line(b, line, needle, replacement, 0, global, ignorecase,
                                  replacements)
         IN replace_in_range_short(r.b, line + 1, range_bot, needle, replacement, global,
                                   ignorecase, r.replacements)

RECURSIVE replace_in_range(_, _, _, _, _, _, _, _)
replace_in_range(b, line, range_bot, needle, replacement, global, ignorecase, replacements) ==
    IF line > range_bot \/ b.crashed THEN [b |-> b, replacements |-> replacements]
    ELSE LET Further(r) ==
                 replace_in_range(r.b, line + 1, range_bot, needle, replacement, global,
                                  ignorecase, r.replacements)
         IN Further(replace_in_line(b, line, needle, replacement, 0, global, ignorecase,
                                    replacements))

\* the characters of a command line that stand for a codepoint of the model
Codepoint == [a |-> LETTER, A |-> LETTER - 32]

\* decode(): the codepoints of a string of such characters
decode(str) == [i \in 1..Len(str) |-> Codepoint[str[i]]]

\* a string of characters as the %s of a message prints it
RECURSIVE Printed(_)
Printed(str) == IF str = <<>> THEN "" ELSE Head(str) \o Printed(Tail(str))

\* the place of the first ch in str from position from on; 0 if there is none
IndexOf(str, ch, from) ==
    LET at == {i \in from..Len(str) : str[i] = ch}
    IN IF at = {} THEN 0 ELSE CHOOSE i \in at : \A m \in at : i <= m

\* process_command, `s`: argv1 is the text after the first space
substitute(b, argv1, all_lines) ==
    LET range_top == IF b.mode = MODE_LINE_SELECTION THEN Min(b.start_line, b.line_no)
                     ELSE IF all_lines THEN 1 ELSE b.line_no
        range_bot == IF b.mode = MODE_LINE_SELECTION THEN Max(b.start_line, b.line_no)
                     ELSE IF all_lines THEN line_count(b) ELSE b.line_no
        divider == argv1[1]
        d2 == IndexOf(argv1, divider, 2)
        d3 == IndexOf(argv1, divider, d2 + 1)
        needle == SubSeq(argv1, 2, d2 - 1)
        replacement == SubSeq(argv1, d2 + 1, IF d3 = 0 THEN Len(argv1) ELSE d3 - 1)
        options == IF d3 = 0 THEN <<>> ELSE SubSeq(argv1, d3 + 1, Len(argv1))
        global == \E i \in 1..Len(options) : options[i] = "g"
        case_insensitive == IF \E i \in 1..Len(options) : options[i] = "i" THEN 1 ELSE 0
        Told(r) ==
            IF r.b.crashed THEN r.b
            ELSE IF r.replacements > 0
              THEN Msg(set_history_break(r.b),
                       "replaced " \o ToString(r.replacements) \o " instance"
                          \o (IF r.replacements = 1 THEN "" ELSE "s") \o " of "
                          \o Printed(needle))
            ELSE Msg(r.b, "Pattern not found: " \o Printed(needle))
    IN IF argv1 = <<>> THEN Msg(b, "expected substitution argument")
       ELSE IF d2 = 0 THEN Msg(b, "nothing to replace with")
       ELSE Told(replace_in_range(b, range_top, range_bot, decode(needle),
                                  decode(replacement), global, case_insensitive, 0))

\* process_command for the command lines of SubstituteCommands: the first word
\* is cut at the first space, a leading % sets all_lines, and a first word
\* other than `s` is here not the name of any command
process_command(b, cmd) ==
    LET sp == IndexOf(cmd, " ", 1)
        word == IF sp = 0 THEN cmd ELSE SubSeq(cmd, 1, sp - 1)
        argv1 == IF sp = 0 THEN <<>> ELSE SubSeq(cmd, sp + 1, Len(cmd))
        all_lines == word # <<>> /\ word[1] = "%"
        argv0 == IF all_lines THEN Tail(word) ELSE word
    IN IF argv0 = <<"s">> THEN substitute(b, argv1, all_lines)
       ELSE Msg(b, "Not an editor command: " \o Printed(argv0))

\* NULL file name
NoFile == ""

\* write_file(file); fopen_ok is the outcome of fopen(file, "w+")
write_file(b, file, fopen_ok) ==
    IF file = NoFile THEN Msg(b, "Need a file to write to.")
    ELSE IF ~fopen_ok THEN Msg(b, "Failed to open file for writing.")
    ELSE [b EXCEPT !.modified = FALSE,
                   !.last_save_history = b.hpos,
                   !.file_name = IF @ = NoFile THEN file ELSE @,
                   !.message = ""]

\* what write_file puts in the file: the live cells of every line
FileImage(b) == TextOf(b)

(* ------------------------------- state --------------------------------- *)
\* env: the one open buffer.  Besides the fields of buffer_t it carries
\* start_col (with start_line, the anchor that char_selection_mode keeps in
\* locals), message (the text last rendered on the command line), crashed
\* (the process has faulted or no longer returns) and reuse (malloc hands the next journal record
\* the address last_save_history still holds).
\* global_config: the yank register.  running: the process has not exited.
\* keys: how many key commands the mode loops have handled so far.
\* past: a history variable, not part of the program: past[p] is the document
\* as it was when the records after journal position p were begun, and for
\* the newest position the document as it is (past[1]: as loaded).
\* others: the buffers of the vector `buffers` that are not the active one, in
\* the vector's order, each with its own `past`.  tab: the place of env in the
\* vector, so that buffers = InsertAt(others, tab, env).
VARIABLES env, global_config, running, keys, past, others, tab

vars == <<env, global_config, running, keys, past, others, tab>>

\* a line as add_buffer builds it while loading
LoadedLine(t) == [actual |-> Len(t), text |-> t]

\* the files open_file loads in this model: "a" and "aa" followed by a blank line
Documents == {<<LoadedLine(<<LETTER>>)>>,
              <<LoadedLine(<<LETTER, LETTER>>), LoadedLine(<<>>)>>}

\* match_syntax(file): the highlighter of the file's extension
match_syntax(file_name) == IF file_name = "file.diff" THEN "diff" ELSE "none"

\* buffer_new() and setup_buffer(), then open_file() for a named file
NewBuffer(lines, file_name, readonly) ==
    LET b == [lines |-> lines, line_no |-> 1, col_no |-> 1, preferred_column |-> 0,
              mode |-> MODE_NORMAL, modified |-> FALSE, loading |-> TRUE,
              readonly |-> readonly, indent |-> TRUE, file_name |-> file_name,
              history |-> <<Sentinel>>, hpos |-> 1, last_save_history |-> 1,
              start_line |-> 0, start_col |-> 0, sel_col |-> 0,
              message |-> "", crashed |-> FALSE, reuse |-> FALSE,
              syntax |-> match_syntax(file_name), search |-> <<>>,
              highlighting_paren |-> FALSE, redraw |-> FALSE,
              flags |-> [k \in 1..Len(lines) |-> <<>>],
              istate |-> [k \in 1..Len(lines) |-> 0]]
    IN place_cursor_actual([recalculate_from(b, 0) EXCEPT !.loading = FALSE])

\* the state main() hands to normal_mode, but for the buffer
Started ==
    /\ global_config = [yanks |-> <<>>, yank_is_full_lines |-> FALSE,
                        command_history |-> <<>>]
    /\ running = TRUE
    /\ keys = 0
    /\ past = <<TextOf(env)>>
    /\ others = <<>>
    /\ tab = 1

Init ==
    /\ \E readonly \in BOOLEAN :
         \/ env = NewBuffer(<<EmptyLine>>, NoFile, readonly)
         \/ \E lines \in Documents : env = NewBuffer(lines, "file", readonly)
    /\ Started

\* a text with nested brackets and both cases of a letter, "(a(" and "A))",
\* and a patch whose lines "(", "+)" and ")" differ in their syntax class
Bracketed == <<LoadedLine(<<40, LETTER, 40>>), LoadedLine(<<LETTER - 32, 41, 41>>)>>
Patch == <<LoadedLine(<<40>>), LoadedLine(<<43, 41>>), LoadedLine(<<41>>)>>

InitBracketed ==
    /\ \/ env = NewBuffer(Bracketed, "file", FALSE)
       \/ env = NewBuffer(Patch, "file.diff", FALSE)
    /\ Started

\* the part of the state space that is explored
Bounded(b) ==
    /\ line_count(b) <= MaxLines
    /\ \A k \in 1..line_count(b) :
         /\ b.lines[k].actual <= MaxLen
         /\ b.lines[k].actual >= 0 - MaxDeficit
    /\ Len(b.history) <= MaxHist

AtKey(mode) == running /\ ~env.crashed /\ env.mode = mode

\* the buffer a handler starts from: no message yet, and the allocator's choice
Start(ru) == [env EXCEPT !.message = "", !.reuse = ru]

\* the step to the buffer nb that undo_history or redo_history leaves
Replays(nb) ==
    /\ keys < MaxKeys
    /\ Bounded(nb)
    /\ env' = [nb EXCEPT !.reuse = FALSE]
    /\ keys' = keys + 1
    /\ past' = past
    /\ UNCHANGED <<others, tab>>

\* the step to the buffer nb that any other handler leaves
Becomes(nb) ==
    /\ keys < MaxKeys
    /\ Bounded(nb)
    /\ env' = [nb EXCEPT !.reuse = FALSE]
    /\ keys' = keys + 1
    /\ past' = IF nb.hpos = env.hpos THEN past
               ELSE [p \in 1..Len(nb.history) |->
                       IF p < env.hpos THEN past[p]
                       ELSE IF p = env.hpos THEN TextOf(env) ELSE TextOf(nb)]
    /\ UNCHANGED <<others, tab>>

Keep == UNCHANGED <<global_config, running>>

Yanked(y, full) ==
    global_config' = [global_config EXCEPT !.yanks = y, !.yank_is_full_lines = full]

\* insert_command_history(cmd): cmd comes first, an older copy of it goes
insert_command_history(history, cmd) ==
    LET at == {i \in 1..Len(history) : history[i] = cmd}
        amount_to_shift == IF at = {} THEN Min(Len(history), COMMAND_HISTORY_MAX - 1)
                           ELSE (CHOOSE i \in at : \A m \in at : i <= m) - 1
    IN <<cmd>> \o SubSeq(history, 1, amount_to_shift)
             \o SubSeq(history, amount_to_shift + 2, Len(history))

\* process_command(cmd): its first statement
Ran(cmd) ==
    /\ Len(global_config.command_history) < MaxCommands
    /\ global_config' = [global_config EXCEPT
                            !.command_history = insert_command_history(@, cmd)]

(* ------------------------------- search -------------------------------- *)
\* a faulty smart_case that never folds; C16 must tell it from the real one
smart_case_off(str) == 0

\* smart_case(str): 1 when the option is on and tolower changes no codepoint
smart_case(str) ==
    IF ~smart_case_enabled THEN 0
    ELSE IF \E i \in 1..Len(str) : tolower(str[i]) # str[i] THEN 0
    ELSE 1

\* the inner loop of find_match and find_match_backwards: the needle is read
\* from position m on against the cells from k on, and its end counts only
\* while k <= actual
RECURSIVE match_from(_, _, _, _, _)
match_from(line, k, str, m, ignorecase) ==
    IF ~(k < line.actual + 1) THEN FALSE
    ELSE IF m > Len(str) THEN TRUE
    ELSE IF ~search_matches(str[m], CellAt(line.text, k), ignorecase) THEN FALSE
    ELSE match_from(line, k + 1, str, m + 1, ignorecase)

\* while (j < line->actual + 1) of find_match: the column found, or -1
RECURSIVE find_in_line(_, _, _, _)
find_in_line(line, j, str, ignorecase) ==
    IF ~(j < line.actual + 1) THEN 0 - 1
    ELSE IF match_from(line, j, str, 1, ignorecase) THEN j + 1
    ELSE find_in_line(line, j + 1, str, ignorecase)

RECURSIVE find_match_lines(_, _, _, _, _)
find_match_lines(b, i, col, str, ignorecase) ==
    IF i > Len(b.lines) THEN NoMatch
    ELSE LET c == find_in_line(b.lines[i], col - 1, str, ignorecase)
         IN IF c # 0 - 1 THEN [line |-> i, col |-> c]
            ELSE find_match_lines(b, i + 1, 0, str, ignorecase)

\* find_match(from_line, from_col, &out_line, &out_col, str)
find_match(b, from_line, from_col, str) ==
    find_match_lines(b, from_line, from_col, str, smart_case(str))

\* while (j > -1) of find_match_backwards: the column found, or -1
RECURSIVE find_in_line_backwards(_, _, _, _)
find_in_line_backwards(line, j, str, ignorecase) ==
    IF ~(j > 0 - 1) THEN 0 - 1
    ELSE IF match_from(line, j, str, 1, ignorecase) THEN j + 1
    ELSE find_in_line_backwards(line, j - 1, str, ignorecase)

RECURSIVE find_match_lines_backwards(_, _, _, _, _)
find_match_lines_backwards(b, i, col, str, ignorecase) ==
    IF i < 1 THEN NoMatch
    ELSE LET c == find_in_line_backwards(b.lines[i], col - 1, str, ignorecase)
         IN IF c # 0 - 1 THEN [line |-> i, col |-> c]
            ELSE find_match_lines_backwards(b, i - 1,
                                            IF i > 1 THEN b.lines[i - 1].actual ELSE 0 - 1,
                                            str, ignorecase)

\* find_match_backwards(from_line, from_col, &out_line, &out_col, str)
find_match_backwards(b, from_line, from_col, str) ==
    find_match_lines_backwards(b, from_line, from_col, str, smart_case(str))

\* the do-while of draw_search_match: every match from (_line, _col) on gets
\* FLAG_SEARCH on as many cells as the needle is long
RECURSIVE mark_matches(_, _, _, _)
mark_matches(b, line, col, buffer) ==
    LET Marked(m) ==
            LET Mark(l, j, f) == IF l = m.line /\ j >= m.col /\ j < m.col + Len(buffer)
                                   THEN With(f, FLAG_SEARCH) ELSE f
            IN IF m.line = 0 - 1 THEN b
               ELSE mark_matches(Reflagged(b, Mark), m.line, m.col + 1, buffer)
    IN Marked(find_match(b, line, col, buffer))

\* a faulty unhighlight that leaves the marks; C18 must tell it from the real one
unhighlight_none(b) == b

\* FLAG_SEARCH taken off every live cell
unhighlight(b) ==
    LET Clear(l, j, f) == Without(f, FLAG_SEARCH)
    IN Reflagged(b, Clear)

\* draw_search_match(buffer, redraw_buffer)
draw_search_match(b, buffer) == place_cursor_actual(mark_matches(unhighlight(b), 1, 1, buffer))

\* a faulty search_next that does not start again at the top; C17 must tell
\* it from the real one
search_next_once(b) ==
    IF b.search = <<>> THEN b
    ELSE LET m == find_match(b, b.line_no, b.col_no + 1, b.search)
         IN IF m.line = 0 - 1 THEN b
            ELSE draw_search_match(
                   set_preferred_column([b EXCEPT !.col_no = m.col, !.line_no = m.line]),
                   b.search)

\* search_next()
search_next(b) ==
    IF b.search = <<>> THEN b
    ELSE LET Found(m) ==
                 IF m.line = 0 - 1 THEN b
                 ELSE draw_search_match(
                        set_preferred_column([b EXCEPT !.col_no = m.col, !.line_no = m.line]),
                        b.search)
             \* m1: the match after the cursor; without one, the first of the text
             Wrapped(m1) == Found(IF m1.line = 0 - 1 THEN find_match(b, 1, 1, b.search) ELSE m1)
         IN Wrapped(find_match(b, b.line_no, b.col_no + 1, b.search))

\* search_prev()
search_prev(b) ==
    IF b.search = <<>> THEN b
    ELSE LET Found(m) ==
                 IF m.line = 0 - 1 THEN b
                 ELSE draw_search_match(
                        set_preferred_column([b EXCEPT !.col_no = m.col, !.line_no = m.line]),
                        b.search)
             \* m1: the match before the cursor; without one, the last of the text
             Wrapped(m1) ==
                 Found(IF m1.line = 0 - 1
                       THEN find_match_backwards(b, Len(b.lines), b.lines[Len(b.lines)].actual,
                                                 b.search)
                       ELSE m1)
         IN Wrapped(find_match_backwards(b, b.line_no, b.col_no - 1, b.search))

\* the cursor back where search_mode found it; set_preferred_column runs
\* between the two assignments
search_restore(b, prev_line, prev_col) ==
    [set_preferred_column([b EXCEPT !.col_no = prev_col]) EXCEPT !.line_no = prev_line]

\* the match search_mode looks for after a change of its buffer
search_seek(b, direction, prev_line, prev_col, buffer) ==
    IF direction = 1 THEN find_match(b, prev_line, prev_col, buffer)
    ELSE find_match_backwards(b, prev_line, prev_col, buffer)

\* the key loop of search_mode(direction); keys are the keys typed after / or ?
RECURSIVE search_keys(_, _, _, _, _, _)
search_keys(b, direction, prev_line, prev_col, buffer, typed) ==
    IF typed = <<>> THEN b
    ELSE LET c == Head(typed)
         IN IF c = "Esc"
              THEN unhighlight([b EXCEPT !.line_no = prev_line, !.col_no = prev_col])
            ELSE IF c = "Enter"
              THEN IF buffer = <<>> THEN search_next(b) ELSE [b EXCEPT !.search = buffer]
            ELSE IF c = "Backspace"
              THEN IF Len(buffer) > 0
                   THEN LET shorter == SubSeq(buffer, 1, Len(buffer) - 1)
                            m == search_seek(b, direction, prev_line, prev_col, shorter)
                            b1 == IF m.line # 0 - 1
                                  THEN set_preferred_column(
                                         [b EXCEPT !.col_no = m.col, !.line_no = m.line])
                                  ELSE b
                        IN search_keys(draw_search_match(b1, shorter), direction, prev_line,
                                       prev_col, shorter, Tail(typed))
                   ELSE search_restore(b, prev_line, prev_col)
            ELSE LET longer == Append(buffer, Codepoint[c])
                     m == search_seek(b, direction, prev_line, prev_col, longer)
                     b1 == IF m.line # 0 - 1
                           THEN set_preferred_column(
                                  [b EXCEPT !.col_no = m.col, !.line_no = m.line])
                           ELSE search_restore(b, prev_line, prev_col)
                 IN search_keys(draw_search_match(b1, longer), direction, prev_line,
                                prev_col, longer, Tail(typed))

\* search_mode(direction)
search_mode(b, direction, typed) ==
    search_keys(b, direction, b.line_no, b.col_no, <<>>, typed)

\* c_keyword_qualifier(c)
c_keyword_qualifier(c) == c \in 48..57 \/ c \in 65..90 \/ c \in 97..122 \/ c = 95

\* search_under_cursor()
search_under_cursor(b) ==
    LET line == CurLine(b)
        Word(from, to) == \A i \in from..to : c_keyword_qualifier(CellAt(line.text, i - 1))
        befores == {n \in 0..Max(b.col_no, 0) : Word(b.col_no - n + 1, b.col_no)}
        afters == {n \in 0..Max(line.actual - b.col_no, 0) :
                     Word(b.col_no + 1, b.col_no + n)}
        c_before == CHOOSE n \in befores : \A m \in befores : m <= n
        c_after == CHOOSE n \in afters : \A m \in afters : m <= n
    IN IF c_before = 0 /\ c_after = 0 THEN b
       ELSE search_next(
              [b EXCEPT !.search =
                  [j \in 1..(c_before + c_after) |->
                      IF j <= c_before THEN CellAt(line.text, b.col_no - c_before + j - 1)
                      ELSE CellAt(line.text, b.col_no + (j - c_before) - 1)]])

\* handle_navigation, case '%'
jump_to_paren(b) ==
    LET Jumped(b1, m) ==
            IF m.line = 0 - 1 THEN b1
            ELSE place_cursor_actual(
                   set_preferred_column([b1 EXCEPT !.line_no = m.line, !.col_no = m.col]))
        From(b1) == Jumped(b1, find_matching_paren(b1, 1))
    IN From(IF b.mode = MODE_LINE_SELECTION \/ b.mode = MODE_CHAR_SELECTION
            THEN recalculate_from(b, 0) ELSE b)

(* --------------------------- navigation keys --------------------------- *)
NavModes == {MODE_NORMAL, MODE_LINE_SELECTION, MODE_CHAR_SELECTION, MODE_COL_SELECTION}

\* handle_navigation: h j k l 0 $ n N * %, then the place_cursor_actual of the mode loop;
\* a key that no case of the switch names (such as d) falls through it
handle_navigation(b, key) ==
    place_cursor_actual(
      CASE key = "h" -> cursor_left(b)
        [] key = "j" -> cursor_down(b)
        [] key = "k" -> cursor_up(b)
        [] key = "l" -> cursor_right(b)
        [] key = "0" -> cursor_home(b)
        [] key = "$" -> cursor_end(b)
        [] key = "n" -> search_next(b)
        [] key = "N" -> search_prev(b)
        [] key = "*" -> search_under_cursor(b)
        [] key = "%" -> jump_to_paren(b)
        [] OTHER -> b)

Navigate ==
    /\ running /\ ~env.crashed /\ env.mode \in NavModes
    /\ \E key \in {"h", "j", "k", "l", "0", "$"} :
         Becomes(selection_redraw(handle_navigation(Start(FALSE), key), env.line_no))
    /\ Keep

\* handle_navigation, cases 'n', 'N' and '*'
SearchStep ==
    /\ running /\ ~env.crashed /\ env.mode \in NavModes
    /\ \E key \in {"n", "N", "*"} :
         Becomes(selection_redraw(handle_navigation(Start(FALSE), key), env.line_no))
    /\ Keep

\* handle_navigation, case '%'
JumpParen ==
    /\ running /\ ~env.crashed /\ env.mode \in NavModes
    /\ Becomes(selection_redraw(handle_navigation(Start(FALSE), "%"), env.line_no))
    /\ Keep

\* what is typed after / or ? in this model
SearchSessions ==
    {<<"a", "Enter">>, <<"A", "Enter">>, <<"Enter">>, <<"a", "Esc">>, <<"Esc">>,
     <<"a", "Backspace", "A", "a", "Enter">>, <<"a", "Backspace", "Backspace">>}

\* handle_navigation, cases '/' (direction 1) and '?' (direction 0)
\* the whole key: search_mode, the place_cursor_actual of the mode loop and the
\* marking of the selection modes
handle_search(b, direction, typed) ==
    selection_redraw(place_cursor_actual(search_mode(b, direction, typed)), b.line_no)

SearchMode ==
    /\ running /\ ~env.crashed /\ env.mode \in NavModes
    /\ \E direction \in {0, 1}, typed \in SearchSessions :
         Becomes(handle_search(Start(FALSE), direction, typed))
    /\ Keep

\* normal_mode, default case, with a key handle_navigation has no case for
NormalUnbound ==
    AtKey(MODE_NORMAL) /\ Becomes(handle_navigation(Start(FALSE), "d")) /\ Keep

\* handle_escape: the arrow keys in Insert and Replace mode
handle_escape_arrow(b, key) ==
    CASE key = "D" -> cursor_left(b)
      [] key = "B" -> cursor_down(b)
      [] key = "A" -> cursor_up(b)
      [] key = "C" -> cursor_right(b)

Arrow ==
    /\ running /\ ~env.crashed /\ env.mode \in {MODE_INSERT, MODE_REPLACE}
    /\ \E key \in {"A", "B", "C", "D"} : Becomes(handle_escape_arrow(Start(FALSE), key))
    /\ Keep

(* ----------------------------- normal mode ----------------------------- *)
\* insert_mode(): entry
insert_mode(b) == place_cursor_actual([b EXCEPT !.mode = MODE_INSERT])

\* normal_mode, case 'i' and the label _insert
normal_i(b) == IF b.readonly THEN ReadOnlyMsg(b) ELSE insert_mode(b)

\* normal_mode, case 'a'
normal_a(b) ==
    place_cursor_actual(
      normal_i(IF b.col_no < CurLine(b).actual + 1 THEN [b EXCEPT !.col_no = @ + 1] ELSE b))

\* normal_mode, case 'O'
normal_O(b) ==
    IF b.readonly THEN ReadOnlyMsg(b)
    ELSE LET Opened(b2) ==
                 IF b2.crashed THEN b2
                 ELSE insert_mode(place_cursor_actual(set_modified(set_preferred_column(b2))))
             Indented(b1) == Opened(add_indent(b1, b1.line_no - 1, b1.line_no, FALSE))
         IN Indented([add_line(b, b.line_no - 1) EXCEPT !.col_no = 1])

\* normal_mode, case 'o'
normal_o(b) ==
    IF b.readonly THEN ReadOnlyMsg(b)
    ELSE LET Opened(b2) ==
                 IF b2.crashed THEN b2
                 ELSE insert_mode(place_cursor_actual(set_modified(set_preferred_column(b2))))
             Indented(b1) == Opened(add_indent(b1, b1.line_no - 1, b1.line_no - 2, FALSE))
         IN Indented([add_line(b, b.line_no) EXCEPT !.col_no = 1, !.line_no = @ + 1])

\* replace_mode(): entry, from normal_mode, case 'R'
normal_R(b) ==
    IF b.readonly THEN ReadOnlyMsg(b)
    ELSE place_cursor_actual([b EXCEPT !.mode = MODE_REPLACE])

NormalInsert == AtKey(MODE_NORMAL) /\ Becomes(normal_i(Start(FALSE))) /\ Keep

NormalAppend == AtKey(MODE_NORMAL) /\ Becomes(normal_a(Start(FALSE))) /\ Keep

NormalOpenAbove ==
    AtKey(MODE_NORMAL) /\ (\E ru \in BOOLEAN : Becomes(normal_O(Start(ru)))) /\ Keep

NormalOpenBelow ==
    AtKey(MODE_NORMAL) /\ (\E ru \in BOOLEAN : Becomes(normal_o(Start(ru)))) /\ Keep

NormalReplaceMode == AtKey(MODE_NORMAL) /\ Becomes(normal_R(Start(FALSE))) /\ Keep

\* normal_mode, case 'r': replace_one() and the closing place_cursor_actual
NormalReplaceOne ==
    /\ AtKey(MODE_NORMAL)
    /\ \E c \in Alphabet, ru \in BOOLEAN :
         Becomes(place_cursor_actual(replace_one(Start(ru), c)))
    /\ Keep

\* normal_mode, cases 'P' and 'p'
NormalPaste ==
    /\ AtKey(MODE_NORMAL)
    /\ \E before \in BOOLEAN, ru \in BOOLEAN :
         Becomes(place_cursor_actual(
                   paste(Start(ru), global_config.yanks,
                         global_config.yank_is_full_lines, before)))
    /\ Keep

\* normal_mode, case 'u'
NormalUndo == AtKey(MODE_NORMAL) /\ Replays(place_cursor_actual(undo_history(Start(FALSE)))) /\ Keep

\* normal_mode, case 18 (Ctrl-R)
NormalRedo == AtKey(MODE_NORMAL) /\ Replays(place_cursor_actual(redo_history(Start(FALSE)))) /\ Keep

\* normal_mode, case BACKSPACE_KEY
NormalBackspace ==
    AtKey(MODE_NORMAL) /\ Becomes(place_cursor_actual(backspace_move(Start(FALSE)))) /\ Keep

\* line_selection_mode(): entry
line_selection_mode(b) ==
    select_line([b EXCEPT !.start_line = b.line_no, !.mode = MODE_LINE_SELECTION], b.line_no)

\* char_selection_mode(): entry
char_selection_mode(b) ==
    LET Mark(l, j, f) == IF l = b.line_no /\ j = b.col_no THEN With(f, FLAG_SELECT) ELSE f
    IN Reflagged([b EXCEPT !.start_line = b.line_no, !.start_col = b.col_no,
                           !.mode = MODE_CHAR_SELECTION], Mark)

EnterLineSelection == AtKey(MODE_NORMAL) /\ Becomes(line_selection_mode(Start(FALSE))) /\ Keep

EnterCharSelection == AtKey(MODE_NORMAL) /\ Becomes(char_selection_mode(Start(FALSE))) /\ Keep

EnterColSelection == AtKey(MODE_NORMAL) /\ Becomes(col_selection_mode(Start(FALSE))) /\ Keep

(* -------------------------- insert and replace ------------------------- *)
\* insert_mode, default case and case '\t': the text is drawn and the cursor
\* placed only when the keyboard has been idle (redraw)
InsertChar ==
    /\ AtKey(MODE_INSERT)
    /\ \E c \in Alphabet, ru \in BOOLEAN :
         Becomes([set_preferred_column(insert_char(Start(ru), c)) EXCEPT !.redraw = TRUE])
    /\ Keep

\* insert_mode, cin == -1 with redraw set: bim_getch_timeout has run out
InsertIdle ==
    /\ AtKey(MODE_INSERT) /\ env.redraw
    /\ env' = [place_cursor_actual(env) EXCEPT !.redraw = FALSE]
    /\ UNCHANGED <<global_config, running, keys, past, others, tab>>

\* insert_mode, case BACKSPACE_KEY
InsertBackspace ==
    AtKey(MODE_INSERT) /\ (\E ru \in BOOLEAN : Becomes(delete_at_cursor(Start(ru)))) /\ Keep

\* insert_mode, case ENTER_KEY
InsertEnter ==
    /\ AtKey(MODE_INSERT)
    /\ \E ru \in BOOLEAN :
         LET Pending(nb) == IF nb.crashed THEN nb ELSE [nb EXCEPT !.redraw = TRUE]
         IN Becomes(Pending(insert_line_feed(Start(ru))))
    /\ Keep

\* handle_escape, CSI 3 ~
DeleteKey ==
    /\ running /\ ~env.crashed /\ env.mode \in {MODE_INSERT, MODE_REPLACE}
    /\ \E ru \in BOOLEAN : Becomes(delete_key(Start(ru)))
    /\ Keep

\* Esc in insert_mode and replace_mode: leave_insert(), back in normal_mode
LeaveInsert ==
    /\ running /\ ~env.crashed /\ env.mode \in {MODE_INSERT, MODE_REPLACE}
    /\ \E ru \in BOOLEAN : Becomes(place_cursor_actual(leave_insert(Start(ru))))
    /\ Keep

ReplaceChar ==
    /\ AtKey(MODE_REPLACE)
    /\ \E c \in Alphabet, ru \in BOOLEAN : Becomes(replace_mode_char(Start(ru), c))
    /\ Keep

ReplaceEnter ==
    AtKey(MODE_REPLACE) /\ (\E ru \in BOOLEAN : Becomes(replace_mode_enter(Start(ru)))) /\ Keep

ReplaceBackspace == AtKey(MODE_REPLACE) /\ Becomes(backspace_move(Start(FALSE))) /\ Keep

(* --------------------------- selection keys ---------------------------- *)
Refused(b) == b.readonly \/ b.crashed

LineSelDelete ==
    /\ AtKey(MODE_LINE_SELECTION)
    /\ \E ru \in BOOLEAN : Becomes(line_selection_d(Start(ru)))
    /\ IF Refused(env') THEN UNCHANGED global_config
       ELSE Yanked(yank_lines(env, env.start_line, env.line_no), TRUE)
    /\ UNCHANGED running

LineSelYank ==
    /\ AtKey(MODE_LINE_SELECTION)
    /\ \E ru \in BOOLEAN : Becomes(line_selection_y(Start(ru)))
    /\ IF env'.crashed THEN UNCHANGED global_config
       ELSE Yanked(yank_lines(env, env.start_line, env.line_no), TRUE)
    /\ UNCHANGED running

LineSelIndent ==
    /\ AtKey(MODE_LINE_SELECTION)
    /\ \E direction \in {1, 0 - 1}, ru \in BOOLEAN :
         Becomes(line_selection_indent(Start(ru), direction))
    /\ Keep

CharSelDelete ==
    /\ AtKey(MODE_CHAR_SELECTION)
    /\ \E ru \in BOOLEAN : Becomes(char_selection_d(Start(ru)))
    /\ IF Refused(env') THEN UNCHANGED global_config
       ELSE Yanked(char_selection_yank(env), FALSE)
    /\ UNCHANGED running

CharSelYank ==
    /\ AtKey(MODE_CHAR_SELECTION)
    /\ \E ru \in BOOLEAN : Becomes(char_selection_y(Start(ru)))
    /\ IF env'.crashed THEN UNCHANGED global_config
       ELSE Yanked(char_selection_yank(env), FALSE)
    /\ UNCHANGED running

ColSelInsert ==
    /\ AtKey(MODE_COL_SELECTION)
    /\ \E after \in BOOLEAN : Becomes(col_selection_insert(Start(FALSE), after))
    /\ Keep

\* a selection mode left at its label
leave_selection(b) ==
    IF b.mode = MODE_COL_SELECTION THEN leave_select_col(b) ELSE leave_select(b)

\* Esc, or the key that entered the mode: _leave_select_line/_char/_col
LeaveSelection ==
    /\ running /\ ~env.crashed
    /\ env.mode \in {MODE_LINE_SELECTION, MODE_CHAR_SELECTION, MODE_COL_SELECTION}
    /\ \E ru \in BOOLEAN : Becomes(leave_selection(Start(ru)))
    /\ Keep

ColInsertChar ==
    /\ AtKey(MODE_COL_INSERT)
    /\ \E c \in Alphabet, ru \in BOOLEAN : Becomes(col_insert_char(Start(ru), c))
    /\ Keep

ColInsertBackspace ==
    AtKey(MODE_COL_INSERT) /\ (\E ru \in BOOLEAN : Becomes(col_insert_backspace(Start(ru)))) /\ Keep

\* Esc in col_insert_mode: return, then _leave_select_col
ColInsertLeave ==
    AtKey(MODE_COL_INSERT) /\ (\E ru \in BOOLEAN : Becomes(leave_select_col(Start(ru)))) /\ Keep

(* ------------------------------ commands ------------------------------- *)
\* the vector `buffers`
buffers == InsertAt([k \in 1..Len(others) |-> others[k].env], tab, env)

\* close_buffer() after the handler has left the active buffer as b:
\* buffer_close(env) takes it out of the vector and returns the buffer now at
\* its place (the last one if it was the last), or none, in which case quit()
close_buffer(b) ==
    /\ keys < MaxKeys
    /\ keys' = keys + 1
    /\ IF others = <<>>
       THEN /\ running' = FALSE
            /\ env' = b
            /\ UNCHANGED <<past, others, tab>>
       ELSE LET new == IF tab = Len(others) + 1 THEN Len(others) ELSE tab
            IN /\ env' = [others[new].env EXCEPT !.message = b.message]
               /\ past' = others[new].past
               /\ others' = RemoveAt(others, new)
               /\ tab' = new
               /\ UNCHANGED running

\* quit() once every buffer has been closed
quit ==
    /\ keys < MaxKeys
    /\ keys' = keys + 1
    /\ running' = FALSE
    /\ others' = <<>>
    /\ tab' = 1
    /\ UNCHANGED <<env, past>>

\* process_command, `w` with or without a file argument
CommandWrite ==
    /\ AtKey(MODE_NORMAL)
    /\ \E arg \in {NoFile, "file"}, fopen_ok \in BOOLEAN :
         /\ Becomes(place_cursor_actual(
                      write_file(Start(FALSE), IF arg # NoFile THEN arg ELSE env.file_name,
                                 fopen_ok)))
         /\ Ran(IF arg # NoFile THEN "w " \o arg ELSE "w")
    /\ UNCHANGED running

\* process_command, `wq`: write_file(env->file_name); close_buffer();
CommandWriteQuit ==
    /\ AtKey(MODE_NORMAL)
    /\ \E fopen_ok \in BOOLEAN : close_buffer(write_file(Start(FALSE), env.file_name, fopen_ok))
    /\ Ran("wq")

\* process_command, `q`
CommandQuit ==
    /\ AtKey(MODE_NORMAL)
    /\ IF env.modified
       THEN /\ Becomes(Msg(Start(FALSE), "No write since last change. Use :q! to force exit."))
            /\ UNCHANGED running
       ELSE close_buffer(Start(FALSE))
    /\ Ran("q")

\* process_command, `q!`
CommandQuitForce == AtKey(MODE_NORMAL) /\ close_buffer(Start(FALSE)) /\ Ran("q!")

\* try_quit(): the first modified buffer of the vector stops it
try_quit ==
    IF \E k \in 1..Len(buffers) : buffers[k].modified
    THEN /\ Becomes(Msg(Start(FALSE), "Modifications made. Aborting."))
         /\ UNCHANGED running
    ELSE quit

\* process_command, `qa`
CommandQuitAll == AtKey(MODE_NORMAL) /\ try_quit /\ Ran("qa")

\* process_command, `qa!`
CommandQuitAllForce == AtKey(MODE_NORMAL) /\ quit /\ Ran("qa!")

\* process_command, `tabnew` without a file: buffer_new() and setup_buffer()
CommandTabNew ==
    /\ AtKey(MODE_NORMAL)
    /\ keys < MaxKeys /\ Len(others) + 1 < MaxBuffers
    /\ keys' = keys + 1
    /\ env' = NewBuffer(<<EmptyLine>>, NoFile, FALSE)
    /\ past' = <<TextOf(env')>>
    /\ others' = InsertAt(others, tab, [env |-> Start(FALSE), past |-> past])
    /\ tab' = Len(others) + 2
    /\ Ran("tabnew")
    /\ UNCHANGED running

\* next_tab() and previous_tab(), from process_command `tabn` and `tabp`
CommandTab ==
    /\ AtKey(MODE_NORMAL)
    /\ keys < MaxKeys /\ others # <<>>
    /\ keys' = keys + 1
    /\ \E step \in {1, 0 - 1} :
         LET n == Len(others) + 1
             to == ((tab - 1 + step + n) % n) + 1
             all == InsertAt(others, tab, [env |-> Start(FALSE), past |-> past])
         IN /\ env' = all[to].env
            /\ past' = all[to].past
            /\ others' = RemoveAt(all, to)
            /\ tab' = to
            /\ Ran(IF step = 1 THEN "tabn" ELSE "tabp")
    /\ UNCHANGED running

\* a substitution as it is typed: [%]s, a space or none, /needle/replacement
\* and, after a third divider, the options
Substitution(percent, space, needle, replacement, options) ==
    percent \o <<"s">> \o space \o <<"/">> \o needle \o <<"/">> \o replacement
            \o (IF options = <<>> THEN <<>> ELSE <<"/">> \o options)

\* the command lines typed in this model
SubstituteCommands ==
    {Substitution(<<>>, <<>>, <<"a">>, <<>>, <<"g">>),
     Substitution(<<>>, <<" ">>, <<"a">>, <<"a", "a">>, <<>>),
     Substitution(<<>>, <<" ">>, <<"a">>, <<>>, <<"g">>),
     Substitution(<<"%">>, <<" ">>, <<"a">>, <<"a", "a">>, <<"g">>),
     Substitution(<<"%">>, <<" ">>, <<>>, <<"a", "a">>, <<>>),
     Substitution(<<>>, <<" ">>, <<>>, <<>>, <<"g">>)}

\* `:` in normal_mode (handle_navigation) and in line_selection_mode:
\* command_mode reads a line and Enter runs it; line_selection_mode then goes
\* to _leave_select_line
\* command_mode(): typed are the keys after `:`.  Enter runs the line typed
\* so far, Esc returns before process_command is called.
command_mode(b, typed) ==
    IF typed[Len(typed)] = "Esc" THEN b
    ELSE process_command(b, SubSeq(typed, 1, Len(typed) - 1))

\* the command history command_mode leaves: process_command enters the line
\* it is given, so a line given up with Esc is not entered
command_mode_history(history, typed) ==
    IF typed[Len(typed)] = "Esc" THEN history
    ELSE insert_command_history(history, Printed(SubSeq(typed, 1, Len(typed) - 1)))

\* what follows command_mode() in case ':' of handle_navigation (Normal mode)
\* and of the selection modes, which go on to their _leave_select label
after_colon(mode, b) ==
    IF mode = MODE_NORMAL THEN place_cursor_actual(b)
    ELSE IF mode = MODE_COL_SELECTION THEN leave_select_col(b)
    ELSE leave_select(b)

\* case ':', whatever command_mode did
colon(b, typed) == after_colon(b.mode, command_mode(b, typed))

\* a `:` line: the buffer and the command history it leaves
Typed(ru, typed) ==
    /\ Becomes(colon(Start(ru), typed))
    /\ global_config' = [global_config EXCEPT
           !.command_history = command_mode_history(@, typed)]

CommandSubstitute ==
    /\ running /\ ~env.crashed /\ env.mode \in {MODE_NORMAL, MODE_LINE_SELECTION}
    /\ Len(global_config.command_history) < MaxCommands
    /\ \E cmd \in SubstituteCommands, ru \in BOOLEAN : Typed(ru, Append(cmd, "Enter"))
    /\ UNCHANGED running

\* the command lines given up with Esc in this model
CancelledCommands == {<<"Esc">>, <<"s", " ", "/", "a", "/", "/", "g", "Esc">>}

CommandCancel ==
    /\ running /\ ~env.crashed /\ env.mode \in NavModes
    /\ \E typed \in CancelledCommands : Typed(FALSE, typed)
    /\ UNCHANGED running

Next ==
    \/ Navigate \/ Arrow \/ NormalUnbound \/ SearchStep \/ JumpParen \/ SearchMode
    \/ NormalInsert \/ NormalAppend \/ NormalOpenAbove \/ NormalOpenBelow
    \/ NormalReplaceMode \/ NormalReplaceOne \/ NormalPaste
    \/ NormalUndo \/ NormalRedo \/ NormalBackspace
    \/ EnterLineSelection \/ EnterCharSelection \/ EnterColSelection
    \/ InsertChar \/ InsertIdle \/ InsertBackspace \/ InsertEnter \/ DeleteKey \/ LeaveInsert
    \/ ReplaceChar \/ ReplaceEnter \/ ReplaceBackspace
    \/ LineSelDelete \/ LineSelYank \/ LineSelIndent
    \/ CharSelDelete \/ CharSelYank \/ ColSelInsert \/ LeaveSelection
    \/ ColInsertChar \/ ColInsertBackspace \/ ColInsertLeave
    \/ CommandWrite \/ CommandWriteQuit \/ CommandQuit \/ CommandSubstitute
    \/ CommandQuitForce \/ CommandQuitAll \/ CommandQuitAllForce
    \/ CommandTabNew \/ CommandTab \/ CommandCancel

Spec == Init /\ [][Next]_vars

\* the same program started on the bracketed texts
SpecBracketed == InitBracketed /\ [][Next]_vars

(* ======================== the claims, C1 to C10 ======================== *)
Closed(b) == Cur(b).type = HISTORY_BREAK \/ Cur(b).type = HISTORY_SENTINEL

Cursor(b) == <<b.line_no, b.col_no>>

Waiting == running /\ ~env.crashed

\* `u` pressed k times
RECURSIVE UndoTimes(_, _)
UndoTimes(b, k) ==
    IF k = 0 \/ b.crashed THEN b
    ELSE UndoTimes(place_cursor_actual(undo_history(b)), k - 1)

\* `i`, one key, Esc
InsertSession(b, c) ==
    place_cursor_actual(leave_insert(set_preferred_column(insert_char(normal_i(b), c))))

\* `a`, one key, Esc
AppendSession(b, c) ==
    place_cursor_actual(leave_insert(set_preferred_column(insert_char(normal_a(b), c))))

\* `o`, Esc
OpenSession(b) == place_cursor_actual(leave_insert(normal_o(b)))

\* C1: with the journal at the end of completed groups, pressing `u` any
\* number of times gives, each time, the document as it was when the journal
\* position now reached was recorded.
C1_UndoRestoresText ==
    (Waiting /\ env.mode = MODE_NORMAL /\ Closed(env)) =>
        \A k \in 1..MaxHist :
            LET u == UndoTimes(env, k)
            IN ~u.crashed => TextOf(u) = past[u.hpos]

\* C2: `u` then Ctrl-R, and Ctrl-R then `u`, leave the text and the journal
\* position as they were, and neither changes the journal's records.
C2_UndoRedoInverse ==
    (Waiting /\ env.mode = MODE_NORMAL) =>
        /\ Cur(env).type # HISTORY_SENTINEL =>
             LET u == undo_history(env)
                 r == redo_history(u)
             IN ~r.crashed => /\ TextOf(r) = TextOf(env)
                              /\ r.hpos = env.hpos
                              /\ u.history = env.history /\ r.history = env.history
        /\ env.hpos < Len(env.history) =>
             LET r == redo_history(env)
                 u == undo_history(r)
             IN ~u.crashed => /\ TextOf(u) = TextOf(env)
                              /\ u.hpos = env.hpos
                              /\ r.history = env.history /\ u.history = env.history

\* C3: at every key wait, modified is true exactly when the journal position
\* differs from last_save_history.
C3_ModifiedIffMoved ==
    Waiting => (env.modified <=> env.hpos # env.last_save_history)

\* C4: no key changes the text, the line count or the journal of a read-only
\* buffer.
C4_ReadOnlyNeverMutated ==
    [][env.readonly => /\ TextOf(env') = TextOf(env)
                       /\ env'.history = env.history
                       /\ env'.hpos = env.hpos]_vars

\* C5: the buffer always holds at least one line, and remove_line on the only
\* line of a buffer leaves one empty line.
C5_AtLeastOneLine ==
    /\ line_count(env) >= 1
    /\ (line_count(env) = 1 /\ ~env.crashed) =>
           LET r == remove_line(env, 0)
           IN line_count(r) = 1 /\ Live(r.lines[1]) = <<>>

\* a line selection over the only line, which held text, has been deleted
C5_OnlyLineDeleted ==
    /\ Waiting /\ env.mode = MODE_NORMAL
    /\ line_count(env) = 1 /\ Live(env.lines[1]) = <<>>
    /\ global_config.yank_is_full_lines
    /\ Len(global_config.yanks) = 1 /\ global_config.yanks[1].actual > 0
    /\ Cur(env).type = HISTORY_BREAK /\ env.history[env.hpos - 1].type = HISTORY_DELETE

\* C6: at every key wait the cursor is on a line of the buffer and on a
\* column of that line (one past its end allowed in Insert mode only).
C6_CursorValid ==
    Waiting =>
        /\ 1 <= env.line_no /\ env.line_no <= line_count(env)
        /\ 1 <= env.col_no
        /\ env.line_no <= line_count(env) =>
             IF env.mode = MODE_INSERT
             THEN env.col_no <= CurLine(env).actual + 1
             ELSE env.col_no <= Max(1, CurLine(env).actual)

\* C7, as claimed: one `u` after one group puts the cursor back where it was
\* in Normal mode before the group was started.
C7_UndoRestoresCursor ==
    (Waiting /\ env.mode = MODE_NORMAL /\ ~env.readonly /\ Closed(env)) =>
        \A c \in Alphabet :
            \A t \in {AppendSession(env, c), OpenSession(env)} :
                (~t.crashed /\ t.hpos > env.hpos) =>
                    LET u == place_cursor_actual(undo_history(t))
                    IN ~u.crashed => Cursor(u) = Cursor(env)

\* where undo_history leaves the cursor after reverting record e last
ChangeSite(e, b) ==
    LET site == CASE e.type = HISTORY_INSERT -> <<e.lineno + 1, e.offset + 1>>
                  [] e.type = HISTORY_DELETE -> <<e.lineno + 1, e.offset + 2>>
                  [] e.type = HISTORY_REPLACE -> <<e.lineno + 1, e.offset + 1>>
                  [] e.type = HISTORY_REMOVE_LINE -> <<e.lineno + 2, 1>>
                  [] e.type = HISTORY_ADD_LINE -> <<e.lineno + 1, 1>>
                  [] e.type = HISTORY_REPLACE_LINE -> <<e.lineno + 1, 1>>
                  [] e.type = HISTORY_SPLIT_LINE -> <<e.lineno + 2, 1>>
                  [] e.type = HISTORY_MERGE_LINES -> <<e.lineno, 1>>
        l == Min(site[1], line_count(b))
        c == Min(site[2], b.lines[l].actual)
    IN <<Max(l, 1), Max(c, 1)>>

\* C7, amended: `u` leaves the cursor at the site of the oldest edit of the
\* group it reverted, brought inside the buffer, whatever the cursor was
\* before the group.
C7_UndoCursorAtChange ==
    [][(NormalUndo /\ env'.hpos < env.hpos /\ ~env'.crashed) =>
          Cursor(env') = ChangeSite(env.history[env'.hpos + 1], env')]_vars

\* a group has been undone and the cursor is not at the top of the buffer
C7_UndoneAwayFromTop ==
    /\ Waiting /\ env.mode = MODE_NORMAL
    /\ env.message = "changed" /\ env.hpos < Len(env.history)
    /\ Closed(env) /\ Cursor(env) # <<1, 1>>

\* C8: whenever a key changes the journal's records of the buffer it is typed
\* in (the other buffers stay as they are), the records up to the old
\* position are kept, everything after it is replaced by the new records, the
\* position is the newest record and Ctrl-R reports nothing to redo; `u` and
\* Ctrl-R never change the records.
C8_DivergentEditDiscardsRedo ==
    [][/\ (others' = others /\ env'.history # env.history) =>
            /\ Len(env'.history) > env.hpos
            /\ SubSeq(env'.history, 1, env.hpos) = SubSeq(env.history, 1, env.hpos)
            /\ env'.hpos = Len(env'.history)
            /\ ~env'.crashed =>
                 /\ redo_history(env').message = "Already at newest change"
                 /\ TextOf(redo_history(env')) = TextOf(env')
       /\ (NormalUndo \/ NormalRedo) => env'.history = env.history]_vars

\* an edit after an undo has discarded the records that held the saved position
C8_SavedPositionDiscarded ==
    /\ Waiting /\ env.mode = MODE_NORMAL
    /\ env.last_save_history = DANGLING
    /\ env.hpos = Len(env.history) /\ env.hpos > 1

\* C9: an Insert session started from Normal mode ends on a Break, and one
\* `u` after it gives back the text the session started from.
C9_OneUndoPerAction ==
    (Waiting /\ env.mode = MODE_NORMAL /\ ~env.readonly) =>
        \A c \in Alphabet :
            LET t == InsertSession(env, c)
                u == undo_history(t)
            IN (~t.crashed /\ ~u.crashed) =>
                   /\ Cur(t).type = HISTORY_BREAK
                   /\ TextOf(u) = TextOf(env)

WriteFailure == {"Need a file to write to.", "Failed to open file for writing."}

\* C10: a command whose write fails leaves the editor running and the text,
\* modified, the journal position and last_save_history as they were.
C10_FailedWriteLosesNothing ==
    [][env'.message \in WriteFailure =>
          /\ running'
          /\ TextOf(env') = TextOf(env)
          /\ env'.modified = env.modified
          /\ env'.hpos = env.hpos /\ env'.history = env.history
          /\ env'.last_save_history = env.last_save_history]_vars

\* what a buffer holds, the message line and the allocator's choice aside
Held(b) == [b EXCEPT !.message = "", !.reuse = FALSE]

BufferList == [k \in 1..Len(buffers) |-> Held(buffers[k])]

\* a step that closes a buffer
Closes == running /\ (~running' \/ Len(others') < Len(others))

\* C11: `:q` on a modified buffer and `:qa` with a modified buffer open leave
\* the editor running with the same buffers, the same active buffer and the
\* same contents; a step that closes a buffer which is modified when it is
\* closed is `:q!` or `:qa!`.
C11_QuitKeepsUnsavedWork ==
    [][/\ ((CommandQuit /\ env.modified)
            \/ (CommandQuitAll /\ \E k \in 1..Len(buffers) : buffers[k].modified)) =>
              (running' /\ tab' = tab /\ BufferList' = BufferList)
       /\ (Closes /\ env.modified /\ ~(CommandWriteQuit /\ env'.message \notin WriteFailure)) =>
              (CommandQuitForce \/ CommandQuitAllForce)]_vars

\* a mark for the end of a line, no codepoint
LineEnd == 0 - 1

\* a document as one sequence, every line followed by LineEnd
RECURSIVE Flat(_)
Flat(doc) == IF doc = <<>> THEN <<>> ELSE Head(doc) \o <<LineEnd>> \o Flat(Tail(doc))

\* how much of Flat(doc) lies before line l
Before(doc, l) == Len(Flat(SubSeq(doc, 1, l - 1)))

\* every line has a length >= 0, and the cursor and the selection anchor are
\* on cells of the buffer (column 1 on an empty line)
Sane(b) ==
    /\ ~b.crashed
    /\ \A k \in 1..line_count(b) : b.lines[k].actual >= 0
    /\ b.line_no \in 1..line_count(b) /\ b.col_no \in 1..Max(1, CurLine(b).actual)
    /\ b.start_line \in 1..line_count(b)
    /\ b.mode = MODE_CHAR_SELECTION => b.start_col \in 1..Max(1, b.lines[b.start_line].actual)

\* the selected range of a line or character selection, as a piece of Flat
Selected(b) ==
    LET doc == TextOf(b)
        r == CharSel(b)
    IN IF b.mode = MODE_LINE_SELECTION
       THEN SubSeq(Flat(doc), Before(doc, SelTop(b)) + 1, Before(doc, SelBot(b) + 1))
       ELSE SubSeq(Flat(doc), Before(doc, r.sl) + r.sc,
                   Before(doc, r.el) + Min(r.ec, Len(doc[r.el])))

\* `y` in a selection mode, the cursor moved to (l, c), then `P`
YankPaste(b, l, c) ==
    LET full == b.mode = MODE_LINE_SELECTION
        y == IF full THEN line_selection_y(b) ELSE char_selection_y(b)
        reg == IF full THEN yank_lines(b, b.start_line, b.line_no) ELSE char_selection_yank(b)
    IN IF y.crashed THEN y
       ELSE paste([y EXCEPT !.line_no = l, !.col_no = c], reg, full, TRUE)

\* C12: `y` on a line or character selection followed by `P` at any cell of
\* the buffer gives the document with the selected range inserted before that
\* cell (before that line for a line selection) and nothing else changed.
C12_YankPasteReproduces ==
    (Waiting /\ env.mode \in {MODE_LINE_SELECTION, MODE_CHAR_SELECTION}
             /\ ~env.readonly /\ Sane(env)) =>
        \A l \in 1..line_count(env) :
            \A c \in 1..Max(1, env.lines[l].actual) :
                LET doc == TextOf(env)
                    at == Before(doc, l) + (IF env.mode = MODE_LINE_SELECTION THEN 0 ELSE c - 1)
                    p == YankPaste(env, l, c)
                IN ~p.crashed =>
                       Flat(TextOf(p)) = SubSeq(Flat(doc), 1, at) \o Selected(env)
                                           \o SubSeq(Flat(doc), at + 1, Len(Flat(doc)))

\* `d` pressed twice in Normal mode
PressDd(b) == handle_navigation(handle_navigation(b, "d"), "d")

FirstAt(t, needle) ==
    LET at == {j \in 1..(Len(t) - Len(needle) + 1) :
                 SubSeq(t, j, j + Len(needle) - 1) = needle}
    IN IF at = {} THEN 0 ELSE CHOOSE j \in at : \A m \in at : j <= m

\* t with the occurrences of a non-empty needle replaced from left to right,
\* each found in what is left of t after the one before it (all of them, or
\* the first only), and how many were replaced
RECURSIVE Rewritten(_, _, _, _)
Rewritten(t, needle, replacement, global) ==
    LET j == FirstAt(t, needle)
        rest == SubSeq(t, j + Len(needle), Len(t))
        tail == IF global THEN Rewritten(rest, needle, replacement, global)
                ELSE [text |-> rest, count |-> 0]
    IN IF j = 0 THEN [text |-> t, count |-> 0]
       ELSE [text |-> SubSeq(t, 1, j - 1) \o replacement \o tail.text,
             count |-> 1 + tail.count]

\* what the command line reports for count replacements of the needle
Reported(count, needle) ==
    IF count = 0 THEN "Pattern not found: " \o Printed(needle)
    ELSE "replaced " \o ToString(count) \o " instance"
            \o (IF count = 1 THEN "" ELSE "s") \o " of " \o Printed(needle)

\* the needles, replacements and options the substitution claims are tried with
Needles == {<<"a">>, <<"a", "a">>, <<"A">>}
Replacements == {<<>>, <<"a">>, <<"a", "a">>, <<"A", "a">>}
Options == {<<>>, <<"g">>}

\* the cursor line of env after cmd is to be the rewritten line, with the
\* count reported
ScansOnce(cmd, needle, replacement, options) ==
    LET nb == process_command(env, cmd)
        w == Rewritten(TextOf(env)[env.line_no], decode(needle), decode(replacement),
                       options # <<>>)
    IN /\ ~nb.crashed
       /\ TextOf(nb)[env.line_no] = w.text
       /\ nb.message = Reported(w.count, needle)

Range(percent) ==
    IF env.mode = MODE_LINE_SELECTION
      THEN Min(env.start_line, env.line_no)..Max(env.start_line, env.line_no)
    ELSE IF percent # <<>> THEN 1..line_count(env)
    ELSE {env.line_no}

RECURSIVE Sum(_, _)
Sum(f, S) == IF S = {} THEN 0 ELSE LET k == CHOOSE k \in S : TRUE
                                   IN f[k] + Sum(f, S \ {k})

C15_NothingReplaced ==
    /\ Waiting /\ env.mode = MODE_NORMAL /\ line_count(env) > 1
    /\ env.message = Reported(0, <<"a">>)

(* ======================== the claims, C16 to C20 ======================= *)
\* the editor is about to read a key
Reading == Waiting /\ keys < MaxKeys

UpperCase(c) == c \in 65..90
FoldCase(c) == IF UpperCase(c) THEN c + 32 ELSE c

\* the needle stands at column c of line l of the text of b, by the smart
\* case rule
MatchesAt(b, l, c, needle) ==
    LET text == TextOf(b)[l]
    IN /\ c >= 1 /\ c + Len(needle) - 1 <= Len(text)
       /\ IF \E k \in 1..Len(needle) : UpperCase(needle[k])
          THEN \A i \in 1..Len(needle) : text[c + i - 1] = needle[i]
          ELSE \A i \in 1..Len(needle) : FoldCase(text[c + i - 1]) = FoldCase(needle[i])

\* the places of b where the needle stands, as <<line, column>>
MatchSet(b, needle) ==
    {p \in (1..line_count(b)) \X (1..MaxLen) : MatchesAt(b, p[1], p[2], needle)}

\* document order
Earlier(p, q) == p[1] < q[1] \/ (p[1] = q[1] /\ p[2] < q[2])

FirstOf(S) == CHOOSE p \in S : \A q \in S : p = q \/ Earlier(p, q)
LastOf(S) == CHOOSE p \in S : \A q \in S : p = q \/ Earlier(q, p)

Place(m) == <<m.line, m.col>>

\* the needles searched for: a, A, aa, aA and (
SearchNeedles == {<<LETTER>>, <<LETTER - 32>>, <<LETTER, LETTER>>, <<LETTER, LETTER - 32>>,
                  <<40>>}

\* the needles that can be typed with the keys a and A
TypedNeedles == {<<"a">>, <<"A">>, <<"a", "a">>, <<"a", "A">>}

\* the cells that carry FLAG_SEARCH
Overlay(b) ==
    {p \in (1..line_count(b)) \X (1..MaxLen) :
        p[2] <= b.lines[p[1]].actual /\ Has(FlagAt(b, p[1], p[2] - 1), FLAG_SEARCH)}

\* the cells under the matches of the needle
Covered(b, needle) ==
    LET all == MatchSet(b, needle)
    IN {p \in (1..line_count(b)) \X (1..MaxLen) :
          \E q \in all : q[1] = p[1] /\ q[2] <= p[2] /\ p[2] < q[2] + Len(needle)}

\* C16: with smartcase on, a needle without an uppercase codepoint matches
\* where the cells equal it after folding the case of both, and a needle with
\* one matches where the cells equal it codepoint for codepoint; / ? n N and *
\* all find their matches by this rule, and the overlay marks these matches.
C16_SmartCase ==
    (Reading /\ env.mode \in NavModes) =>
        /\ \A needle \in SearchNeedles :
             LET all == MatchSet(env, needle)
                 covered == Covered(env, needle)
             IN /\ \A l \in 1..line_count(env), c \in 0..(MaxLen + 1) :
                     LET after == {p \in all : p = <<l, c>> \/ Earlier(<<l, c>>, p)}
                         upto == {p \in all : p = <<l, c>> \/ Earlier(p, <<l, c>>)}
                     IN /\ c >= 1 =>
                             Place(find_match(env, l, c, needle))
                               = IF after = {} THEN Place(NoMatch) ELSE FirstOf(after)
                        /\ Place(find_match_backwards(env, l, c, needle))
                             = IF upto = {} THEN Place(NoMatch) ELSE LastOf(upto)
                /\ \A key \in {"n", "N"} :
                     LET b == [env EXCEPT !.search = needle]
                         nb == handle_navigation(b, key)
                     IN IF all = {} THEN nb = place_cursor_actual(b)
                        ELSE Cursor(nb) \in all /\ Overlay(nb) = covered
        /\ \A typed \in TypedNeedles, direction \in {0, 1} :
             LET nb == search_mode(env, direction, Append(typed, "Enter"))
                 all == MatchSet(env, decode(typed))
                 from == {p \in all : p = Cursor(env)
                                       \/ (IF direction = 1 THEN Earlier(Cursor(env), p)
                                           ELSE Earlier(p, Cursor(env)))}
             IN /\ nb.search = decode(typed)
                /\ Cursor(nb) = IF from = {} THEN Cursor(env)
                                ELSE IF direction = 1 THEN FirstOf(from) ELSE LastOf(from)
                /\ Overlay(nb) = Covered(env, decode(typed))
        /\ LET nb == handle_navigation(env, "*")
           IN (nb.search # env.search /\ MatchSet(env, nb.search) # {}) =>
                /\ Cursor(nb) \in MatchSet(env, nb.search)
                /\ Overlay(nb) = Covered(env, nb.search)

\* A has been searched for in a text that holds a and A: the cursor is on the
\* A, which alone is marked, though a folded needle would match twice
C16_UpperNeedleFound ==
    /\ Waiting /\ env.mode = MODE_NORMAL /\ env.search = <<LETTER - 32>>
    /\ Overlay(env) = {Cursor(env)}
    /\ MatchSet(env, <<LETTER - 32>>) = {Cursor(env)}
    /\ \E p \in MatchSet(env, <<LETTER>>) : p # Cursor(env)

\* the needles stepped to: a, A and )
StepNeedles == {<<LETTER>>, <<LETTER - 32>>, <<41>>}

\* `n` pressed k times
RECURSIVE NextTimes(_, _)
NextTimes(b, k) == IF k = 0 THEN b ELSE NextTimes(handle_navigation(b, "n"), k - 1)

\* C17: with a stored needle, `n` goes to the first match that starts after
\* the cursor, or else to the first match of the buffer, `N` to the last match
\* that starts before the cursor, or else to the last match of the buffer, and
\* neither moves when there is no match; `n` pressed again and again visits
\* every match in document order and comes back to the first it visited.
C17_SearchSteps ==
    (Reading /\ env.mode \in NavModes) =>
        \A needle \in StepNeedles :
            LET b == [env EXCEPT !.search = needle]
                all == MatchSet(env, needle)
                after == {p \in all : Earlier(Cursor(env), p)}
                before == {p \in all : Earlier(p, Cursor(env))}
                count == Cardinality(all)
                visit == [i \in 1..(count + 1) |-> Cursor(NextTimes(b, i))]
            IN /\ Cursor(handle_navigation(b, "n"))
                    = IF after # {} THEN FirstOf(after)
                      ELSE IF all # {} THEN FirstOf(all) ELSE Cursor(env)
               /\ Cursor(handle_navigation(b, "N"))
                    = IF before # {} THEN LastOf(before)
                      ELSE IF all # {} THEN LastOf(all) ELSE Cursor(env)
               /\ all = {} => TextOf(handle_navigation(b, "n")) = TextOf(env)
               /\ all # {} =>
                    /\ {visit[i] : i \in 1..count} = all
                    /\ visit[count + 1] = visit[1]
                    /\ \A i \in 1..count :
                         Earlier(visit[i], visit[i + 1]) \/ visit[i + 1] = FirstOf(all)

\* a has been searched for and stepped to in a text that holds it on two
\* lines: the cursor is back on the first match, and both are marked
C17_SteppedAround ==
    /\ Waiting /\ env.mode = MODE_NORMAL /\ env.search = <<LETTER>> /\ keys >= 3
    /\ Cardinality(MatchSet(env, env.search)) >= 2
    /\ \E p, q \in MatchSet(env, env.search) : p[1] # q[1]
    /\ Cursor(env) = FirstOf(MatchSet(env, env.search))
    /\ Overlay(env) = Covered(env, env.search)

\* what is typed into search_mode before Esc: nothing, a, A, aA
TypedBeforeEsc == {<<>>, <<"a">>, <<"A">>, <<"a", "A">>}

\* the journal of nb is that of b, or that of b closed by one break record
JournalClosed(b, nb) ==
    \/ nb.history = b.history /\ nb.hpos = b.hpos
    \/ /\ ~Closed(b) /\ b.hpos = Len(b.history)
       /\ nb.hpos = b.hpos + 1 /\ Len(nb.history) = nb.hpos
       /\ SubSeq(nb.history, 1, b.hpos) = b.history
       /\ Cur(nb).type = HISTORY_BREAK

\* C18 as the specification states it: Esc in search_mode restores the cursor
\* and the FLAG_SEARCH overlay of every cell as they were when search_mode was
\* entered and leaves needle, text and journal alone; Esc in command_mode leaves
\* text, journal, cursor and command history alone.
C18_EscRestoresOverlay ==
    (Reading /\ env.mode \in NavModes) =>
        /\ \A typed \in TypedBeforeEsc, direction \in {0, 1} :
             LET nb == handle_search(env, direction, Append(typed, "Esc"))
             IN /\ Cursor(nb) = Cursor(env) /\ Overlay(nb) = Overlay(env)
                /\ nb.search = env.search /\ TextOf(nb) = TextOf(env)
                /\ nb.history = env.history /\ nb.hpos = env.hpos
        /\ \A typed \in CancelledCommands :
             LET nb == colon(env, typed)
             IN /\ TextOf(nb) = TextOf(env) /\ Cursor(nb) = Cursor(env)
                /\ nb.history = env.history /\ nb.hpos = env.hpos
                /\ command_mode_history(global_config.command_history, typed)
                     = global_config.command_history

\* C18: Esc in search_mode, after any typed needle, puts the cursor back where
\* search_mode found it, takes FLAG_SEARCH off every cell, and leaves the
\* stored needle, the text, the journal and the mode alone; Esc in
\* command_mode runs no command and leaves text, cursor, command history and
\* messages alone, and the journal too but for the break record with which a
\* selection mode closes an open group when it is left after `:`.
C18_EscClearsOverlay ==
    (Reading /\ env.mode \in NavModes) =>
        /\ \A typed \in TypedBeforeEsc, direction \in {0, 1} :
             LET nb == handle_search(env, direction, Append(typed, "Esc"))
             IN /\ Cursor(nb) = Cursor(env) /\ Overlay(nb) = {}
                /\ nb.search = env.search /\ TextOf(nb) = TextOf(env)
                /\ nb.history = env.history /\ nb.hpos = env.hpos
                /\ nb.mode = env.mode /\ nb.modified = env.modified
        /\ \A typed \in CancelledCommands :
             LET nb == colon(env, typed)
             IN /\ TextOf(nb) = TextOf(env) /\ Cursor(nb) = Cursor(env)
                /\ nb.message = env.message /\ nb.modified = env.modified
                /\ nb.search = env.search
                /\ command_mode_history(global_config.command_history, typed)
                     = global_config.command_history
                /\ IF env.mode = MODE_NORMAL
                     THEN nb.history = env.history /\ nb.hpos = env.hpos
                   ELSE nb.mode = MODE_NORMAL /\ JournalClosed(env, nb)

\* a search was stored and marked, and a second search was given up with Esc:
\* the needle is still stored and stands in the text, and no cell is marked
C18_SearchGivenUp ==
    /\ Waiting /\ env.mode = MODE_NORMAL /\ keys = 2 /\ Len(env.history) = 1
    /\ env.search # <<>> /\ MatchSet(env, env.search) # {}
    /\ Overlay(env) = {}

\* the brackets and their partners
Openers == {40, 91, 123, 60}
Closers == {41, 93, 125, 62}
PartnerOf == [c \in Openers \cup Closers |->
                CASE c = 40 -> 41 [] c = 41 -> 40 [] c = 91 -> 93 [] c = 93 -> 91
                  [] c = 123 -> 125 [] c = 125 -> 123 [] c = 60 -> 62 [] c = 62 -> 60]

\* the live cells of b, as <<line, column>>
CellsOf(b) == {p \in (1..line_count(b)) \X (1..MaxLen) : p[2] <= b.lines[p[1]].actual}

CharAt(b, p) == TextOf(b)[p[1]][p[2]]

\* the class the highlighter of b gives the cells of line l: that of the diff
\* highlighter goes by the first character of the line
SyntaxClass(b, l) ==
    LET first == TextOf(b)[l][1]
    IN IF b.syntax # "diff" THEN 0
       ELSE IF first = 43 THEN FLAG_DIFFPLUS
       ELSE IF first = 45 THEN FLAG_DIFFMINUS
       ELSE IF first = 64 THEN FLAG_TYPE
       ELSE IF first = 32 THEN 0
       ELSE FLAG_KEYWORD

\* the cells from p to q, both included, whichever comes first
Span(b, p, q) ==
    {r \in CellsOf(b) : (r = p \/ r = q \/ (Earlier(p, r) /\ Earlier(r, q))
                                          \/ (Earlier(q, r) /\ Earlier(r, p)))}

\* the depth at q of a scan that began at the bracket at p: the brackets like
\* that at p less their partners, among the cells of p's class
Depth(b, p, q) ==
    LET same == {r \in Span(b, p, q) : SyntaxClass(b, r[1]) = SyntaxClass(b, p[1])}
    IN Cardinality({r \in same : CharAt(b, r) = CharAt(b, p)})
         - Cardinality({r \in same : CharAt(b, r) = PartnerOf[CharAt(b, p)]})

\* the cells at which the scan from p is back at depth zero
Partners(b, p) ==
    {q \in CellsOf(b) :
        /\ IF CharAt(b, p) \in Openers THEN Earlier(p, q) ELSE Earlier(q, p)
        /\ Depth(b, p, q) = 0}

\* C19: with the cursor on a bracket, `%` moves to the first cell, in the
\* bracket's direction and across lines, at which the depth counted over the
\* cells of the bracket's syntax class is back at zero, and does not move if
\* there is none or the cursor is on no bracket; `%` pressed again on the
\* partner returns to the cell it started from.
C19_ParenJump ==
    (Reading /\ env.mode \in NavModes /\ env.line_no \in 1..line_count(env)) =>
        LET nb == handle_navigation(env, "%")
            back == handle_navigation(nb, "%")
            p == Cursor(env)
            found == IF p \in CellsOf(env) /\ CharAt(env, p) \in Openers \cup Closers
                     THEN Partners(env, p) ELSE {}
        IN /\ TextOf(nb) = TextOf(env)
           /\ IF found = {} THEN Cursor(nb) = p
              ELSE /\ Cursor(nb) = IF CharAt(env, p) \in Openers THEN FirstOf(found)
                                   ELSE LastOf(found)
                   /\ Cursor(back) = p

\* `%` on the first line of the patch has passed the bracket of the added line
C19_JumpedPastOtherClass ==
    /\ Waiting /\ env.mode = MODE_NORMAL /\ env.syntax = "diff" /\ keys = 1
    /\ TextOf(env) = <<<<40>>, <<43, 41>>, <<41>>>>
    /\ Cursor(env) = <<3, 1>>

\* the cells that carry FLAG_SELECT
Selects(b) == {p \in CellsOf(b) : Has(FlagAt(b, p[1], p[2] - 1), FLAG_SELECT)}

IsBracket(b, p) == p \in CellsOf(b) /\ CharAt(b, p) \in Openers \cup Closers

\* the partner of the bracket at p, as a set of one cell or none
PartnerCell(b, p) ==
    IF Partners(b, p) = {} THEN {}
    ELSE IF CharAt(b, p) \in Openers THEN {FirstOf(Partners(b, p))}
    ELSE {LastOf(Partners(b, p))}

\* the cell highlight_matching_paren is to mark for the cursor of b: the
\* partner of the bracket under the cursor or, if there is no bracket under
\* it, of the bracket to its left
Highlighted(b) ==
    LET under == Cursor(b)
        left == <<b.line_no, b.col_no - 1>>
    IN IF IsBracket(b, under) THEN PartnerCell(b, under)
       ELSE IF IsBracket(b, left) THEN PartnerCell(b, left)
       ELSE {}

\* C20: in Normal and Insert mode, with hlparen on, the cells that carry
\* FLAG_SELECT once the cursor has been placed (in Insert mode: once the text
\* typed has been drawn) are the partner of the bracket
\* under the cursor, or of the bracket left of it, and no other cell; with no
\* bracket there, or none that has a partner, no cell carries FLAG_SELECT.
C20_ParenHighlight ==
    (Waiting /\ highlight_parens /\ env.mode \in {MODE_NORMAL, MODE_INSERT}
             /\ ~env.redraw /\ env.line_no \in 1..line_count(env)) =>
        Selects(env) = Highlighted(env)

\* in Insert mode the cursor stands right of a closing bracket whose partner,
\* on the line above, is the one cell marked
C20_PartnerOfLeftBracket ==
    /\ Waiting /\ env.mode = MODE_INSERT /\ ~env.redraw
    /\ ~IsBracket(env, Cursor(env)) /\ IsBracket(env, <<env.line_no, env.col_no - 1>>)
    /\ \E p \in Selects(env) : Selects(env) = {p} /\ p[1] < env.line_no

\* the cursor is on a bracket that has no partner, and no cell is marked
C20_NothingToMark ==
    /\ Waiting /\ env.mode = MODE_NORMAL /\ IsBracket(env, Cursor(env))
    /\ Partners(env, Cursor(env)) = {} /\ Selects(env) = {}

(* ======================= the claims, C21 to C30 ======================== *)
\* the modes in which the text is edited or part of it is selected
EditModes ==
    {MODE_INSERT, MODE_REPLACE, MODE_LINE_SELECTION, MODE_CHAR_SELECTION,
     MODE_COL_SELECTION, MODE_COL_INSERT}

\* a key of the same buffer has ended an edit mode (col_insert_mode is entered
\* and left inside col_selection_mode, which is left only after it)
LeftEditMode ==
    /\ others' = others /\ running' /\ ~env'.crashed
    /\ env.mode \in EditModes /\ env'.mode # env.mode
    /\ ~(env.mode = MODE_COL_SELECTION /\ env'.mode = MODE_COL_INSERT)

\* C21: whenever an edit mode is left, the mode becomes Normal, the cursor is
\* within 1 <= col_no <= max(1, actual), and the journal is at a Break (or at
\* the sentinel, no record having been appended at all).
C21_LeavingEditMode ==
    [][LeftEditMode =>
         /\ env'.mode = MODE_NORMAL
         /\ 1 <= env'.col_no /\ env'.col_no <= Max(1, CurLine(env').actual)
         /\ Closed(env') /\ (env'.hpos > 1 => Cur(env').type = HISTORY_BREAK)]_vars

(* C22: column insert *)
\* the display width of a whole line
LineDisplayWidth(line) == SumTo(recalculate_tabs(line), Len(Live(line)))

\* the number of cells that end at or before the display column x: the
\* 0-based index of the cell that covers column x
CellAtColumn(line, x) ==
    Cardinality({k \in 1..Len(Live(line)) : SumTo(recalculate_tabs(line), k) <= x})

\* the lines of the block: anchor to cursor line, in either order
SelectedLines(b) == Min(b.line_no, b.start_line)..Max(b.line_no, b.start_line)

\* typing c puts it on every line of the block that reaches sel_col, at the
\* cell that covers sel_col, and on no other line
ColumnInserted(b, nb, c) ==
    /\ Len(nb.lines) = Len(b.lines)
    /\ \A l \in 1..Len(b.lines) :
         IF l \in SelectedLines(b) /\ LineDisplayWidth(b.lines[l]) >= b.sel_col
         THEN Live(nb.lines[l]) =
                InsertAt(Live(b.lines[l]), CellAtColumn(b.lines[l], b.sel_col) + 1, c)
         ELSE Live(nb.lines[l]) = Live(b.lines[l])

\* sel_col has moved on by the display width of the cell just inserted
ColumnAdvanced(b, nb) ==
    \A l \in SelectedLines(b) :
        LineDisplayWidth(b.lines[l]) >= b.sel_col =>
            nb.sel_col = b.sel_col
                         + display_width(nb.lines[l], CellAtColumn(b.lines[l], b.sel_col))

\* C22: in ColInsert a typed character c is inserted into each line of the
\* block at the cell whose display column is sel_col; the lines of the block
\* narrower than sel_col and the lines outside the block stay as they are; and
\* sel_col advances by the display width of c.
C22_ColumnInsert ==
    (Reading /\ env.mode = MODE_COL_INSERT) =>
        \A c \in Alphabet :
            LET Typed_c(nb) ==
                    ~nb.crashed => ColumnInserted(env, nb, c) /\ ColumnAdvanced(env, nb)
            IN Typed_c(col_insert_char(env, c))

(* C23: Backspace in column insert *)
\* col_insert_mode has just been entered from col_selection_mode: the session
\* has inserted nothing yet
ColInsertEntered ==
    /\ others' = others /\ running' /\ ~env'.crashed
    /\ env.mode = MODE_COL_SELECTION /\ env'.mode = MODE_COL_INSERT

\* Backspace right after c was typed takes c away again on every line and
\* puts sel_col back
BackspaceUndoesTyped(b, c) ==
    LET Back(b2) ==
            /\ ~b2.crashed
            /\ TextOf(b2) = TextOf(b)
            /\ b2.sel_col = b.sel_col
        Typed_c(b1) == ~b1.crashed => Back(col_insert_backspace(b1))
    IN Typed_c(col_insert_char(b, c))

\* C23: in ColInsert, Backspace removes from each line of the block exactly the
\* character typed last in this session and puts sel_col back to what it was
\* before that character, whatever its display width; and when the session has
\* not inserted anything yet, Backspace removes no cell of any line.
C23_ColumnBackspace ==
    [][/\ (Reading /\ env.mode = MODE_COL_INSERT) =>
             \A c \in Alphabet : BackspaceUndoesTyped(env, c)
       /\ ColInsertEntered =>
             TextOf(col_insert_backspace(env')) = TextOf(env')]_vars

(* C24: the chain of lexer states *)
\* C24: with a lexer, once loading is over, whenever the editor waits for a
\* key the istate stored for each line but the first is the state the lexer
\* returns for the line before it, started from that line's own istate.
C24_SyntaxChain ==
    (Waiting /\ env.syntax # "none" /\ ~env.loading) =>
        \A k \in 0..(line_count(env) - 2) :
            env.istate[k + 2] = calculated_state(env, k)

(* C25: the cascade of recalculate_syntax *)
\* the last line recalculate_syntax(k) recomputes: the first line from k on
\* whose successor already stores the state handed to it, or the last line
CascadeEnd(b, k) ==
    LET ends == {m \in k..(line_count(b) - 1) :
                    \/ m = line_count(b) - 1
                    \/ b.istate[m + 2] = calculated_state(b, m)}
    IN CHOOSE m \in ends : \A n \in ends : m <= n

\* the flags the lexer gives the cells of line j, every overlay bit cleared
FreshFlags(b, j) ==
    LET paint == IF b.syntax = "diff" THEN syn_diff_calculate(b.lines[j + 1]) ELSE 0 - 1
    IN [c \in 1..Max(b.lines[j + 1].actual, 0) |-> IF paint = 0 - 1 THEN 0 ELSE paint]

\* nb is b with the lines k .. CascadeEnd(b, k) recomputed and nothing else
CascadeIsLocal(b, nb, k) ==
    /\ nb.lines = b.lines /\ Len(nb.flags) = Len(b.flags) /\ Len(nb.istate) = Len(b.istate)
    /\ \A j \in 0..(line_count(b) - 1) :
         IF j >= k /\ j <= CascadeEnd(b, k)
         THEN /\ nb.flags[j + 1] = FreshFlags(b, j)
              /\ nb.istate[j + 1] = IF j = k THEN b.istate[j + 1]
                                    ELSE calculated_state(b, j - 1)
         ELSE /\ nb.flags[j + 1] = b.flags[j + 1]
              /\ nb.istate[j + 1] = b.istate[j + 1]

TextMutated ==
    /\ others' = others /\ running' /\ ~env'.crashed
    /\ TextOf(env') # TextOf(env)

\* a needle is stored and its matches, at least one, are the marked cells
SearchHighlighted(b) ==
    b.search # <<>> /\ Overlay(b) # {} /\ Overlay(b) = Covered(b, b.search)

\* C26: while a needle is stored and highlighted, after every change of the
\* text FLAG_SEARCH is on exactly the cells under the matches of the needle in
\* the text as it now is, and (in Normal mode) FLAG_SELECT is on no cell but
\* the partner of the bracket at the cursor.
C26_SearchOverlayFollows ==
    [][(TextMutated /\ SearchHighlighted(env) /\ env'.search = env.search) =>
         /\ Overlay(env') = Covered(env', env'.search)
         /\ (env'.mode = MODE_NORMAL /\ env'.line_no \in 1..line_count(env')) =>
                Selects(env') \subseteq Highlighted(env')]_vars

(* C27: tab widths.  recalculate_tabs is checked by itself, on one line of
   cells that store their display_width as char_t does, under every tabstop
   that `:tabstop` accepts; env is here the record of that line and of
   env->tabstop. *)
\* the longest line of this specification
MaxTabLen == 3

\* the width of the bit-field char_t.display_width
DISPLAY_WIDTH_BITS == 4

\* a value stored in char_t.display_width, an unsigned bit-field
AsDisplayWidth(v) == v % (2 ^ DISPLAY_WIDTH_BITS)

\* the char_t that line_insert is handed for the key c (flags left out)
KeyCell(c) == [codepoint |-> c, display_width |-> AsDisplayWidth(codepoint_width(c))]

\* recalculate_tabs(line) under tabstop ts: the loop from cell i on, j being
\* the sum of the stored widths of the cells before it
RECURSIVE recalculate_tabs_from(_, _, _, _)
recalculate_tabs_from(text, ts, i, j) ==
    IF i > Len(text) THEN text
    ELSE LET Stored(t2) == recalculate_tabs_from(t2, ts, i + 1, j + t2[i].display_width)
         IN Stored(IF text[i].codepoint = TAB
                   THEN [text EXCEPT ![i].display_width = AsDisplayWidth(ts - (j % ts))]
                   ELSE text)



\* process_command, "tabstop" with the argument t
command_tabstop(b, t) ==
    IF t > 0 /\ t < 32
    THEN [b EXCEPT !.tabstop = t, !.text = recalculate_tabs_from(b.text, t, 1, 0)]
    ELSE b

\* line_insert of the key c at offset off, as far as the widths go
tabs_line_insert(b, c, off) ==
    [b EXCEPT !.text = recalculate_tabs_from(InsertAt(b.text, off + 1, KeyCell(c)),
                                             b.tabstop, 1, 0)]

\* the variables a specification of one function leaves alone
Apart ==
    /\ global_config = [yanks |-> <<>>, yank_is_full_lines |-> FALSE,
                        command_history |-> <<>>]
    /\ running = TRUE
    /\ keys = 0
    /\ past = <<>>
    /\ others = <<>>
    /\ tab = 1

\* an empty line in a new buffer: setup_buffer sets tabstop to 4
InitTabs ==
    /\ env = [text |-> <<>>, tabstop |-> tabstop]
    /\ Apart

UnchangedButEnv == UNCHANGED <<global_config, running, keys, past, others, tab>>

TabstopCommand ==
    /\ \E t \in 0..32 : env' = command_tabstop(env, t)
    /\ UnchangedButEnv

TabsLineInsert ==
    /\ Len(env.text) < MaxTabLen
    /\ \E c \in Alphabet, off \in 0..Len(env.text) : env' = tabs_line_insert(env, c, off)
    /\ UnchangedButEnv

NextTabs == TabstopCommand \/ TabsLineInsert

SpecTabs == InitTabs /\ [][NextTabs]_vars

\* the sum of the stored widths of the cells before cell i
ColumnBefore(text, i) == IF i <= 1 THEN 0
                         ELSE SumTo([k \in 1..Len(text) |-> text[k].display_width], i - 1)

\* C27: under every tabstop from 1 to 31, once recalculate_tabs has run each
\* tab stores the display_width tabstop - (j mod tabstop), j being the sum of
\* the widths of the cells before it (the bit-field cuts nothing off), and
\* running recalculate_tabs again changes nothing.
C27_TabWidths ==
    /\ \A i \in 1..Len(env.text) :
         env.text[i].codepoint = TAB =>
            env.text[i].display_width
               = env.tabstop - (ColumnBefore(env.text, i) % env.tabstop)
    /\ recalculate_tabs_from(env.text, env.tabstop, 1, 0) = env.text

(* C28: the UTF-8 decoder.  decode is checked by itself, fed byte by byte as
   add_buffer feeds it; env is here the record of the decoder's two statics
   and of the codepoints delivered, and past the bytes fed so far. *)
\* the longest input of this specification
MaxBytes == 5

UTF8_ACCEPT == 0
UTF8_REJECT == 1

\* the bytes fed: `$`, the continuation bytes 82 and AC, the lead bytes C2, E2
\* and F1 of two, three and four byte sequences (none of which restricts the
\* continuation bytes that may follow it), and F8
Bytes == {36, 130, 172, 194, 226, 241, 248}

\* state_table[byte >> 3]
state_table(byte) ==
    LET k == byte \div 8
    IN IF k < 16 THEN 0 ELSE IF k < 24 THEN 1 ELSE IF k < 28 THEN 2
       ELSE IF k < 30 THEN 3 ELSE IF k = 30 THEN 4 ELSE 1

\* byte & mask_bytes[byte >> 3]
masked(byte) ==
    LET k == byte \div 8
    IN IF k < 16 THEN byte % 128 ELSE IF k < 24 THEN 0 ELSE IF k < 28 THEN byte % 32
       ELSE IF k < 30 THEN byte % 16 ELSE IF k = 30 THEN byte % 8 ELSE 0

\* the table next[5]
next == <<0, 1, 0, 2, 3>>

\* decode(&state, &codep, byte), on the record of state and codep.  codep
\* stays below 2^21 (a lead byte leaves at most 5 bits and at most three
\* bytes follow before the state is 0 or 1 again), within uint32_t
utf8_decode(d, byte) ==
    IF d.state = UTF8_ACCEPT
    THEN [state |-> state_table(byte), codep |-> masked(byte)]
    ELSE [state |-> next[d.state + 1],
          codep |-> (byte % 64) + d.codep * 64]

\* add_buffer, one turn of its loop: the codepoint is delivered when decode
\* returns 0, and the reject state is put back to 0
add_buffer(b, byte) ==
    LET Fed(d) ==
            IF d.state = 0
            THEN [state |-> 0, codepoint_r |-> d.codep, out |-> Append(b.out, d.codep)]
            ELSE [state |-> IF d.state = UTF8_REJECT THEN 0 ELSE d.state,
                  codepoint_r |-> d.codep, out |-> b.out]
    IN Fed(utf8_decode([state |-> b.state, codep |-> b.codepoint_r], byte))

\* the statics `state` and `codepoint_r` as the program starts
InitDecode ==
    /\ env = [state |-> 0, codepoint_r |-> 0, out |-> <<>>]
    /\ global_config = [yanks |-> <<>>, yank_is_full_lines |-> FALSE,
                        command_history |-> <<>>]
    /\ running = TRUE /\ keys = 0 /\ past = <<>> /\ others = <<>> /\ tab = 1

AddByte ==
    /\ Len(past) < MaxBytes
    /\ \E byte \in Bytes :
         /\ env' = add_buffer(env, byte)
         /\ past' = Append(past, byte)
    /\ UNCHANGED <<global_config, running, keys, others, tab>>

NextDecode == AddByte

SpecDecode == InitDecode /\ [][NextDecode]_vars

\* UTF-8 as it is defined: the length a lead byte announces (0: no lead byte)
SequenceLength(byte) ==
    IF byte < 128 THEN 1
    ELSE IF byte >= 194 /\ byte <= 223 THEN 2
    ELSE IF byte >= 224 /\ byte <= 239 THEN 3
    ELSE IF byte >= 240 /\ byte <= 244 THEN 4
    ELSE 0

Continuation(byte) == byte >= 128 /\ byte <= 191

\* the scalar value of a whole sequence
RECURSIVE Scalar(_, _)
Scalar(bytes, n) ==
    IF n = 1
    THEN (IF Len(bytes) = 1 THEN bytes[1]
          ELSE IF Len(bytes) = 2 THEN bytes[1] - 192
          ELSE IF Len(bytes) = 3 THEN bytes[1] - 224
          ELSE bytes[1] - 240)
    ELSE Scalar(bytes, n - 1) * 64 + (bytes[n] - 128)

\* what the claim has the decoder deliver for the bytes i.. of the input:
\* pend is the sequence begun and not yet ended
RECURSIVE Delivered(_, _, _, _)
Delivered(bytes, i, pend, out) ==
    IF i > Len(bytes) THEN [out |-> out, pend |-> pend]
    ELSE LET byte == bytes[i]
         IN IF pend = <<>>
            THEN (IF SequenceLength(byte) = 1
                    THEN Delivered(bytes, i + 1, <<>>, Append(out, byte))
                  ELSE IF SequenceLength(byte) > 1
                    THEN Delivered(bytes, i + 1, <<byte>>, out)
                  ELSE Delivered(bytes, i + 1, <<>>, out))
            ELSE IF ~Continuation(byte) THEN Delivered(bytes, i + 1, <<>>, out)
            ELSE IF Len(pend) + 1 = SequenceLength(pend[1])
              THEN Delivered(bytes, i + 1, <<>>,
                             Append(out, Scalar(Append(pend, byte), Len(pend) + 1)))
            ELSE Delivered(bytes, i + 1, Append(pend, byte), out)

\* C28: the codepoints delivered are those of the well-formed sequences of
\* the input, each exactly; a stray continuation byte, a lead byte F8..FF and
\* a lead byte followed by a byte that is no continuation byte deliver
\* nothing and leave the decoder in state 0, so that the bytes after them are
\* decoded as if they came first.
C28_Utf8Decoding ==
    LET claimed == Delivered(past, 1, <<>>, <<>>)
    IN /\ env.out = claimed.out
       /\ (env.state = 0) = (claimed.pend = <<>>)

(* C29: the command history.  insert_command_history is checked by itself
   with the array at its real length; a command line is here a number, the
   k-th line never typed before being k, and past holds the lines that were
   typed a second time. *)
\* how many command lines are run in all, and how many of them again
MaxRun == 257
MaxAgain == 1

\* insert_command_history(cmd) frees command_history[i] in its loop and then
\* command_history[COMMAND_HISTORY_MAX-1] once more: cmd is the last entry of
\* the full array
frees_twice(history, cmd) ==
    Len(history) = COMMAND_HISTORY_MAX /\ history[COMMAND_HISTORY_MAX] = cmd

\* process_command(cmd), its first statement, in an editor that does nothing
\* else: after a double free the process may go on or be ended by the allocator
RunCommand(cmd) ==
    /\ running /\ ~env.crashed /\ keys < MaxRun
    /\ keys' = keys + 1
    /\ \/ /\ global_config' = [global_config EXCEPT
                                  !.command_history = insert_command_history(@, cmd)]
          /\ env' = env
       \/ /\ frees_twice(global_config.command_history, cmd)
          /\ env' = [env EXCEPT !.crashed = TRUE]
          /\ global_config' = global_config
    /\ UNCHANGED <<running, others, tab>>

\* a command line never typed before
RunNew == RunCommand(keys + 1) /\ past' = past

\* a command line of the history typed again: the newest, the one before it
\* or the oldest
RunAgain ==
    /\ Len(past) < MaxAgain
    /\ \E i \in {1, 2, Len(global_config.command_history)} :
         /\ i >= 1 /\ i <= Len(global_config.command_history)
         /\ RunCommand(global_config.command_history[i])
         /\ past' = Append(past, global_config.command_history[i])

InitHistory ==
    /\ env = NewBuffer(<<EmptyLine>>, NoFile, FALSE)
    /\ global_config = [yanks |-> <<>>, yank_is_full_lines |-> FALSE,
                        command_history |-> <<>>]
    /\ running = TRUE /\ keys = 0 /\ past = <<>> /\ others = <<>> /\ tab = 1

NextHistory == RunNew \/ RunAgain

SpecHistory == InitHistory /\ [][NextHistory]_vars

\* the entries of a history
Entries(history) == {history[i] : i \in 1..Len(history)}

\* the history without the entry cmd, the order kept
RECURSIVE Without_cmd(_, _)
Without_cmd(history, cmd) ==
    IF history = <<>> THEN <<>>
    ELSE IF Head(history) = cmd THEN Without_cmd(Tail(history), cmd)
    ELSE <<Head(history)>> \o Without_cmd(Tail(history), cmd)

\* C29: every command line run leaves a history of at most 255 entries, no
\* two of them equal, with the line just run at index 0; a line that was in
\* the history has moved to index 0 and the others keep their order; a new
\* line put into a full history drops the oldest entry and no other.
C29_CommandHistory ==
    [][keys' = keys + 1 =>
         LET before == global_config.command_history
             after == global_config'.command_history
         IN /\ ~env'.crashed
            /\ after # <<>>
            /\ Len(after) <= COMMAND_HISTORY_MAX
            /\ Cardinality(Entries(after)) = Len(after)
            /\ Tail(after) =
                 IF Head(after) \in Entries(before)
                 THEN Without_cmd(before, Head(after))
                 ELSE SubSeq(before, 1, Min(Len(before), COMMAND_HISTORY_MAX - 1))]_vars

(* C30: the terminal.  The calls that set up and give back the terminal are
   checked by themselves; env is here the record of what the terminal has
   been told (raw, alternate, mouse, cursor), of the -O options, of the
   disposition of SIGTSTP, of `modified` for each open buffer and of what has
   become of the process. *)
set_alternate_screen(t) == IF t.can_altscreen THEN [t EXCEPT !.alternate = TRUE] ELSE t
unset_alternate_screen(t) == IF t.can_altscreen THEN [t EXCEPT !.alternate = FALSE] ELSE t
set_unbuffered(t) == [t EXCEPT !.raw = TRUE]
set_buffered(t) == [t EXCEPT !.raw = FALSE]
mouse_enable(t) == IF t.can_mouse THEN [t EXCEPT !.mouse = TRUE] ELSE t
mouse_disable(t) == IF t.can_mouse THEN [t EXCEPT !.mouse = FALSE] ELSE t
hide_cursor(t) == IF t.can_hideshow THEN [t EXCEPT !.cursor = FALSE] ELSE t
show_cursor(t) == IF t.can_hideshow THEN [t EXCEPT !.cursor = TRUE] ELSE t

\* init_terminal()
init_terminal(t) ==
    [mouse_enable(set_unbuffered(set_alternate_screen(t))) EXCEPT !.sigtstp = "handler"]

\* quit(): the terminal is given back, then exit(0)
quit_terminal(t) ==
    [unset_alternate_screen(show_cursor(set_buffered(mouse_disable(t))))
       EXCEPT !.status = "exited", !.modified = <<>>]

\* SIGTSTP_handler(): the terminal is given back, then the process stops itself
SIGTSTP_handler(t) ==
    [unset_alternate_screen(show_cursor(set_buffered(mouse_disable(t))))
       EXCEPT !.sigtstp = "default", !.status = "stopped"]

\* SIGCONT_handler(); redraw_all ends with place_cursor_actual's show_cursor
SIGCONT_handler(t) ==
    [show_cursor(mouse_enable(set_unbuffered(set_alternate_screen(t))))
       EXCEPT !.sigtstp = "handler", !.status = "running"]

\* main(): the options, init_terminal, one buffer, redraw_all, normal_mode
InitTerminal ==
    /\ \E altscreen \in BOOLEAN, mouse \in BOOLEAN, hideshow \in BOOLEAN :
         env = init_terminal([can_altscreen |-> altscreen, can_mouse |-> mouse,
                              can_hideshow |-> hideshow,
                              raw |-> FALSE, alternate |-> FALSE, mouse |-> FALSE,
                              cursor |-> TRUE, sigtstp |-> "default",
                              modified |-> <<FALSE>>, status |-> "running"])
    /\ global_config = [yanks |-> <<>>, yank_is_full_lines |-> FALSE,
                        command_history |-> <<>>]
    /\ running = TRUE /\ keys = 0 /\ past = <<>> /\ others = <<>> /\ tab = 1

\* env' is t, and `running` follows its status
Terminal(t) ==
    /\ env' = t
    /\ running' = (t.status = "running")
    /\ UNCHANGED <<global_config, keys, past, others, tab>>

TermRunning == env.status = "running"

\* a key that changes the text of buffer i
TermEdit ==
    /\ TermRunning
    /\ \E i \in 1..Len(env.modified) : Terminal([env EXCEPT !.modified[i] = TRUE])

\* `:tabnew`
TermTabNew ==
    /\ TermRunning /\ Len(env.modified) < MaxBuffers
    /\ Terminal([env EXCEPT !.modified = Append(@, FALSE)])

\* a redraw has begun: redraw_text and the like hide the cursor
TermRedraw == TermRunning /\ env.cursor /\ Terminal(hide_cursor(env))

\* the redraw is over: place_cursor_actual shows the cursor
TermPlaceCursor == TermRunning /\ Terminal(show_cursor(env))

\* `:q` in buffer i (refused if modified) and `:q!`: close_buffer, which
\* quits when no buffer is left
TermCloseBuffer ==
    /\ TermRunning
    /\ \E i \in 1..Len(env.modified), force \in BOOLEAN :
         /\ force \/ ~env.modified[i]
         /\ Terminal(IF Len(env.modified) = 1 THEN quit_terminal(env)
                     ELSE [env EXCEPT !.modified = RemoveAt(@, i)])

\* `:qa`: try_quit, refused while a buffer is modified
TermTryQuit ==
    /\ TermRunning
    /\ Terminal(IF \E i \in 1..Len(env.modified) : env.modified[i] THEN env
                ELSE quit_terminal(env))

\* `:qa!`
TermQuitAll == TermRunning /\ Terminal(quit_terminal(env))

\* SIGTSTP arrives (Ctrl-Z, or kill -TSTP)
TermStop == TermRunning /\ env.sigtstp = "handler" /\ Terminal(SIGTSTP_handler(env))

\* SIGCONT arrives
TermContinue == env.status = "stopped" /\ Terminal(SIGCONT_handler(env))

\* SIGTERM, SIGHUP or SIGSEGV arrives: no handler is installed for any of
\* them (init_terminal installs SIGWINCH, SIGCONT and SIGTSTP), so the
\* default action ends the process where it stands
TermFatalSignal ==
    /\ env.status \in {"running", "stopped"}
    /\ Terminal([env EXCEPT !.status = "killed"])

NextTerminal ==
    \/ TermEdit \/ TermTabNew \/ TermRedraw \/ TermPlaceCursor
    \/ TermCloseBuffer \/ TermTryQuit \/ TermQuitAll
    \/ TermStop \/ TermContinue \/ TermFatalSignal

SpecTerminal == InitTerminal /\ [][NextTerminal]_vars

\* C30: whenever the process is not running (it has exited, it is stopped or
\* a signal has ended it) the terminal is in cooked mode, on the main
\* screen, with mouse reporting off and the cursor visible.
C30_TerminalGivenBack ==
    env.status # "running" =>
        ~env.raw /\ ~env.alternate /\ ~env.mouse /\ env.cursor

(* ------------------------------------------------------------------------ *)
(* the claims, C31 to C40                                                   *)
(* ------------------------------------------------------------------------ *)

(* C31: suspend and continue.  The handlers are signal handlers: a signal can
   arrive between any two statements of SIGCONT_handler, which installs
   SIGTSTP_handler again in its last statement only.  env is the terminal
   record of C30 with the position in SIGCONT_handler (pc: 0 outside of it,
   k before its k-th statement) and `again`, a SIGCONT that is pending while
   the handler runs. *)
MaxCycles == 3

\* the k-th statement of SIGCONT_handler (l.4336-4341) and, after the last
\* one, the return: to the interrupted code, or into the handler once more
SIGCONT_statement(t) ==
    CASE t.pc = 1 -> [set_alternate_screen(t) EXCEPT !.pc = 2]
      [] t.pc = 2 -> [set_unbuffered(t) EXCEPT !.pc = 3]
      [] t.pc = 3 -> [mouse_enable(t) EXCEPT !.pc = 4]
      [] t.pc = 4 -> [show_cursor(t) EXCEPT !.pc = 5]
      [] t.pc = 5 -> [t EXCEPT !.pc = 6]
      [] t.pc = 6 -> [t EXCEPT !.sigtstp = "handler",
                               !.pc = IF t.again THEN 1 ELSE 0, !.again = FALSE]

\* SIGTSTP is delivered: the handler if it is installed, else the default
\* action, which stops the process where it stands
SIGTSTP_delivered(t) ==
    IF t.sigtstp = "handler" THEN SIGTSTP_handler(t) ELSE [t EXCEPT !.status = "stopped"]

\* SIGCONT is delivered to the stopped process: it goes on, into the handler,
\* or, stopped inside the handler (where signal() keeps SIGCONT blocked), on
\* with the handler, which is entered once more when it returns
SIGCONT_delivered(t) ==
    IF t.pc = 0 THEN [t EXCEPT !.status = "running", !.pc = 1]
    ELSE [t EXCEPT !.status = "running", !.again = TRUE]

InitSuspend ==
    /\ \E altscreen \in BOOLEAN, mouse \in BOOLEAN, hideshow \in BOOLEAN :
         env = init_terminal([can_altscreen |-> altscreen, can_mouse |-> mouse,
                              can_hideshow |-> hideshow,
                              raw |-> FALSE, alternate |-> FALSE, mouse |-> FALSE,
                              cursor |-> TRUE, sigtstp |-> "default",
                              status |-> "running", pc |-> 0, again |-> FALSE])
    /\ Apart /\ running = TRUE /\ keys = 0

\* Ctrl-Z, or kill -TSTP: counted in keys
Suspend ==
    /\ env.status = "running" /\ keys < MaxCycles
    /\ env' = SIGTSTP_delivered(env)
    /\ keys' = keys + 1
    /\ UNCHANGED <<global_config, running, past, others, tab>>

\* fg, or kill -CONT
Continue ==
    /\ env.status = "stopped"
    /\ env' = SIGCONT_delivered(env)
    /\ UnchangedButEnv

\* the next statement of SIGCONT_handler
ContinueStatement ==
    /\ env.status = "running" /\ env.pc > 0
    /\ env' = SIGCONT_statement(env)
    /\ UnchangedButEnv

\* a key outside of the handlers: the redraw hides the cursor and
\* place_cursor_actual shows it
SuspendRedraw ==
    /\ env.status = "running" /\ env.pc = 0
    /\ env' \in {hide_cursor(env), show_cursor(env)}
    /\ UnchangedButEnv

NextSuspend == Suspend \/ Continue \/ ContinueStatement \/ SuspendRedraw

SpecSuspend == InitSuspend /\ [][NextSuspend]_vars

\* the terminal as the shell had it, and as the editor wants it
GivenBack(t) == ~t.raw /\ ~t.alternate /\ ~t.mouse /\ t.cursor
Acquired(t) == t.raw /\ t.alternate = t.can_altscreen /\ t.mouse = t.can_mouse

\* C31: every SIGTSTP that stops the process has given the terminal back
\* first and left the default action in place; every SIGCONT handler that
\* has returned leaves the terminal acquired and SIGTSTP_handler installed.
C31_SuspendContinue ==
    [][/\ (env.status = "running" /\ env'.status = "stopped")
            => GivenBack(env') /\ env'.sigtstp = "default"
       /\ (env.pc > 0 /\ env'.pc = 0)
            => Acquired(env') /\ env'.sigtstp = "handler"]_vars

(* C32: repaints started by a signal.  SIGWINCH_handler and SIGCONT_handler
   call redraw_all themselves, and no signal is ever blocked: the handler
   runs between any two statements of the code that is editing.  The edit
   primitives are therefore taken statement by statement here.  env holds
   the array `lines` (each slot a live line, a pointer that was freed, NULL,
   or what malloc left there), line_count, the statement the primitive in
   progress has come to (pc, with its offset), and the width that
   update_screen_size stores. *)
MaxSlots == 3
LINE_AVAILABLE == 32

Unset == [kind |-> "unset", actual |-> 0]
Null == [kind |-> "null", actual |-> 0]
Freed == [kind |-> "freed", actual |-> 0]
FreshLine == [kind |-> "line", actual |-> 0]

\* setup_buffer(): one empty line in an array that malloc did not clear
InitRepaint ==
    /\ env = [lines |-> <<FreshLine>> \o [i \in 1..MaxSlots |-> Unset],
              line_count |-> 1, pc |-> "idle", offset |-> 0, width |-> 80]
    /\ Apart /\ running = TRUE /\ keys = 0

Step(b) == env' = b /\ UnchangedButEnv

\* remove_line(lines, offset), more than one line: free(lines[offset])
RemoveLineFree ==
    /\ env.pc = "idle" /\ env.line_count > 1
    /\ \E offset \in 0..(env.line_count - 1) :
         Step([env EXCEPT !.lines[offset + 1] = Freed, !.offset = offset,
                          !.pc = "remove_line: move"])

\* the lines after it move up and the last slot is set to NULL
RemoveLineMove ==
    /\ env.pc = "remove_line: move"
    /\ Step(IF env.offset < env.line_count - 1
            THEN [env EXCEPT !.lines = [i \in 1..(MaxSlots + 1) |->
                                          IF i = env.line_count THEN Null
                                          ELSE IF i > env.offset /\ i < env.line_count
                                               THEN env.lines[i + 1]
                                          ELSE env.lines[i]],
                             !.pc = "remove_line: count"]
            ELSE [env EXCEPT !.pc = "remove_line: count"])

\* env->line_count -= 1
RemoveLineCount ==
    /\ env.pc = "remove_line: count"
    /\ Step([env EXCEPT !.line_count = @ - 1, !.pc = "idle"])

\* add_line(lines, offset): the lines from offset on move down
AddLineMove ==
    /\ env.pc = "idle" /\ env.line_count < MaxSlots
    /\ \E offset \in 0..env.line_count :
         Step([env EXCEPT !.lines = [i \in 1..(MaxSlots + 1) |->
                                       IF i > offset + 1 /\ i <= env.line_count + 1
                                       THEN env.lines[i - 1] ELSE env.lines[i]],
                          !.offset = offset, !.pc = "add_line: calloc"])

\* lines[offset] = calloc(...)
AddLineAlloc ==
    /\ env.pc = "add_line: calloc"
    /\ Step([env EXCEPT !.lines[env.offset + 1] = FreshLine, !.pc = "add_line: count"])

\* env->line_count += 1
AddLineCount ==
    /\ env.pc = "add_line: count"
    /\ Step([env EXCEPT !.line_count = @ + 1, !.pc = "idle"])

\* line_insert(line, c, offset, lineno): the cell is stored
LineInsertStore ==
    /\ env.pc = "idle"
    /\ \E lineno \in 0..(env.line_count - 1) :
         /\ env.lines[lineno + 1].actual < MaxLen
         /\ Step([env EXCEPT !.offset = lineno, !.pc = "line_insert: actual"])

\* line->actual += 1
LineInsertActual ==
    /\ env.pc = "line_insert: actual"
    /\ Step([env EXCEPT !.lines[env.offset + 1].actual = @ + 1, !.pc = "idle"])

\* line_delete(line, offset): the cells move down and line->actual -= 1
LineDelete ==
    /\ env.pc = "idle"
    /\ \E lineno \in 0..(env.line_count - 1) :
         /\ env.lines[lineno + 1].actual > 0
         /\ Step([env EXCEPT !.lines[lineno + 1].actual = @ - 1])

\* SIGWINCH_handler() or SIGCONT_handler(): update_screen_size (SIGWINCH) and
\* redraw_all, which reads line_count and lines[0 .. line_count - 1];
\* counted in keys
SignalRepaint ==
    /\ keys < MaxKeys
    /\ keys' = keys + 1
    /\ \E width \in {80, 100} : env' = [env EXCEPT !.width = width]
    /\ UNCHANGED <<global_config, running, past, others, tab>>

NextRepaint ==
    \/ RemoveLineFree \/ RemoveLineMove \/ RemoveLineCount
    \/ AddLineMove \/ AddLineAlloc \/ AddLineCount
    \/ LineInsertStore \/ LineInsertActual \/ LineDelete
    \/ SignalRepaint

SpecRepaint == InitRepaint /\ [][NextRepaint]_vars

\* the slots of the array that hold a live line
LiveSlots(b) == {i \in 1..(MaxSlots + 1) : b.lines[i].kind = "line"}

\* C32: whenever a repaint started by a signal reads the buffer, no edit
\* primitive is under way, line_count is the number of live entries of
\* lines, every entry below line_count is a live line and every line has
\* 0 <= actual <= available.
C32_RepaintAtBoundary ==
    [][keys' = keys + 1 =>
         /\ env.pc = "idle"
         /\ Cardinality(LiveSlots(env)) = env.line_count
         /\ \A i \in 1..env.line_count :
              /\ env.lines[i].kind = "line"
              /\ env.lines[i].actual >= 0 /\ env.lines[i].actual <= LINE_AVAILABLE]_vars

(* C33: the viewport.  place_cursor_actual and the callers that move the
   cursor line are taken by themselves; env is the record of what they read
   and write: the cursor (line_no, col_no), the scroll offsets (offset,
   coffset), term_height and cursor_padding, and `placed`, which says that
   place_cursor_actual was the last to run.  The buffer has ViewLines lines
   of ViewCols cells of width 1 in a window of ViewWidth columns. *)
ViewLines == 8
ViewCols == 8
ViewWidth == 12
MaxPadding == 6
Heights == {9, 12}
DefaultPadding == 4
Paddings == (0 - 1)..MaxPadding
bottom_size == 2
NUM_SIZE == 5

\* while (y < 2 + cursor_padding && offset > 0) { y++; offset--; }
RECURSIVE scroll_back(_, _)
scroll_back(v, y) ==
    IF y < 2 + v.cursor_padding /\ v.offset > 0
    THEN scroll_back([v EXCEPT !.offset = @ - 1], y + 1)
    ELSE <<v, y>>

\* while (y > term_height - bottom_size - cursor_padding) { y--; offset++; }
RECURSIVE scroll_forward(_, _)
scroll_forward(v, y) ==
    IF y > v.term_height - bottom_size - v.cursor_padding
    THEN scroll_forward([v EXCEPT !.offset = @ + 1], y - 1)
    ELSE v

\* the screen column of the cursor before any adjustment
screen_x(v) == NUM_SIZE + 1 - v.coffset + (v.col_no - 1)

\* place_cursor_actual(), the viewport
place_cursor_actual_viewport(v) ==
    LET v0 == [v EXCEPT !.line_no = IF @ < 1 THEN 1 ELSE @,
                        !.col_no = IF @ < 1 THEN 1 ELSE @]
        back == scroll_back(v0, v0.line_no - v0.offset + 1)
        v1 == scroll_forward(back[1], back[2])
        x1 == screen_x(v1)
        v2 == IF x1 > v1.width - 1 THEN [v1 EXCEPT !.coffset = @ + (x1 - (v1.width - 1))] ELSE v1
        x2 == screen_x(v2)
        v3 == IF x2 < NUM_SIZE + 1 THEN [v2 EXCEPT !.coffset = @ - ((NUM_SIZE + 1) - x2)] ELSE v2
    IN [v3 EXCEPT !.placed = TRUE]

\* cursor_down(), the viewport
cursor_down_viewport(v) ==
    IF v.line_no >= ViewLines THEN v
    ELSE LET v1 == [v EXCEPT !.line_no = @ + 1, !.coffset = 0]
         IN place_cursor_actual_viewport(
              IF v1.line_no > v1.offset + v1.term_height - bottom_size - 1 - v1.cursor_padding
              THEN [v1 EXCEPT !.offset = @ + 1] ELSE v1)

\* cursor_up(), the viewport
cursor_up_viewport(v) ==
    IF v.line_no <= 1 THEN v
    ELSE LET v1 == [v EXCEPT !.line_no = @ - 1, !.coffset = 0]
             e == IF v1.offset = 0 THEN v1.offset ELSE v1.offset + v1.cursor_padding
         IN place_cursor_actual_viewport(
              IF v1.line_no <= e THEN [v1 EXCEPT !.offset = @ - 1] ELSE v1)

\* goto_line(line)
goto_line(v, line) ==
    LET l == IF line < 1 THEN 1 ELSE IF line > ViewLines THEN ViewLines ELSE line
    IN [v EXCEPT !.coffset = 0, !.offset = l - 1, !.line_no = l, !.col_no = 1]

\* `:padding N`
command_padding(v, n) == place_cursor_actual_viewport([v EXCEPT !.cursor_padding = n])

\* main(): the buffer is shown from its first line, with the padding that
\* global_config starts with
InitViewport ==
    /\ \E h \in Heights :
         env = place_cursor_actual_viewport(
                 [line_no |-> 1, col_no |-> 1, offset |-> 0, coffset |-> 0,
                  width |-> ViewWidth, term_height |-> h,
                  cursor_padding |-> DefaultPadding, placed |-> FALSE])
    /\ Apart /\ running = TRUE /\ keys = 0

\* `j` and `k`
ViewDown == running /\ Step(cursor_down_viewport(env))
ViewUp == running /\ Step(cursor_up_viewport(env))

\* `l`: cursor_right, then place_cursor_actual
ViewRight ==
    /\ env.col_no < ViewCols
    /\ Step(place_cursor_actual_viewport([env EXCEPT !.col_no = @ + 1]))

\* `h`: cursor_left, then place_cursor_actual
ViewLeft ==
    /\ env.col_no > 1
    /\ Step(place_cursor_actual_viewport([env EXCEPT !.col_no = @ - 1]))

\* `:N`: goto_line, then the place_cursor_actual of normal_mode
ViewGoto == running /\ \E line \in 0..(ViewLines + 1) : Step(place_cursor_actual_viewport(goto_line(env, line)))

ViewPadding == running /\ \E n \in Paddings : Step(command_padding(env, n))

\* SIGWINCH: update_screen_size and redraw_all, no place_cursor_actual
ViewResize == running /\ \E h \in Heights : Step([env EXCEPT !.term_height = h, !.placed = FALSE])

NextViewport ==
    \/ ViewDown \/ ViewUp \/ ViewRight \/ ViewLeft \/ ViewGoto \/ ViewPadding \/ ViewResize

SpecViewport == InitViewport /\ [][NextViewport]_vars

\* C33: after place_cursor_actual the offset is not negative, the cursor
\* line is one of the lines of the text area, and the cursor's screen column
\* is inside the window, to the right of the line numbers.
C33_ViewportFollowsCursor ==
    env.placed =>
        /\ env.offset >= 0
        /\ env.offset < env.line_no
        /\ env.line_no <= env.offset + (env.term_height - bottom_size - 1)
        /\ screen_x(env) >= NUM_SIZE + 1
        /\ screen_x(env) <= env.width - 1

(* C34: the bytes after Esc.  The loops of insert_mode, replace_mode and the
   three selection modes are taken byte by byte; env holds env->mode, the
   function whose loop is reading (loop), that loop's timeout and this_buf,
   the one-byte unget slot, the text typed, what was read last (read, -1 for
   a poll that timed out), the key normal_mode dispatched last, a bit that
   every read flips, and `smashed`: this_buf was written past its end. *)
THIS_BUF_SIZE == 20
MaxTyped == 2
NUL == 0
ESC == 27
OPEN_BRACKET == 91
DIGIT_3 == 51
FINAL_A == 65
FINAL_Z == 90
POLL_TIMEOUT == 0 - 1
EscapeBytes == {NUL, ESC, OPEN_BRACKET, DIGIT_3, FINAL_A, FINAL_Z, LETTER}
EditLoops == {MODE_INSERT, MODE_REPLACE, MODE_LINE_SELECTION, MODE_CHAR_SELECTION, MODE_COL_SELECTION}

\* this_buf[i] = c, i counted from 0 as in the code
this_buf_store(e, i, c) ==
    IF i >= THIS_BUF_SIZE THEN [e EXCEPT !.smashed = TRUE]
    ELSE [e EXCEPT !.this_buf[i + 1] = c]

\* handle_escape(this_buf, &timeout, c); the value returned is in ret
handle_escape(e, c) ==
    LET t == e.timeout
        after_esc == t >= 1 /\ e.this_buf[t] = ESC
        in_csi == t >= 2 /\ e.this_buf[1] = ESC /\ e.this_buf[2] = OPEN_BRACKET
    IN IF after_esc /\ c = ESC
         THEN [this_buf_store(e, t, c) EXCEPT !.timeout = t + 1, !.ret = 1]
       ELSE IF after_esc /\ c # OPEN_BRACKET
         THEN [e EXCEPT !.timeout = 0, !.unget = c, !.ret = 1]
       ELSE IF after_esc
         THEN [this_buf_store(e, 1, c) EXCEPT !.timeout = 2, !.ret = 0]
       ELSE IF in_csi /\ c = DIGIT_3
         THEN [this_buf_store(e, t, c) EXCEPT !.timeout = t + 1, !.ret = 0]
       ELSE IF in_csi /\ c = FINAL_Z /\ e.mode = MODE_LINE_SELECTION
         THEN [e EXCEPT !.timeout = 0, !.ret = FINAL_Z]
       ELSE [e EXCEPT !.timeout = 0, !.ret = 0]

\* leave_insert() and return, or goto _leave_select_...
leave_mode(e) == [e EXCEPT !.mode = MODE_NORMAL, !.loop = MODE_NORMAL]

\* one turn of the loop of the mode for what bim_getch gave (c)
mode_loop(e, c) ==
    IF c = POLL_TIMEOUT
      THEN IF e.timeout > 0 /\ e.this_buf[e.timeout] = ESC THEN leave_mode(e)
           ELSE [e EXCEPT !.timeout = 0]
    ELSE IF c = NUL
      THEN IF e.loop \in {MODE_INSERT, MODE_REPLACE} THEN [e EXCEPT !.loop = MODE_NORMAL]
           ELSE leave_mode(e)
    ELSE IF e.timeout = 0
      THEN IF c = ESC THEN [this_buf_store(e, 0, c) EXCEPT !.timeout = 1]
           ELSE IF e.loop \in {MODE_INSERT, MODE_REPLACE} /\ Len(e.text) < MaxTyped
                  THEN [e EXCEPT !.text = Append(@, c)]
           ELSE e
    ELSE LET h == handle_escape(e, c)
         IN IF h.ret = 1 THEN leave_mode([h EXCEPT !.unget = c]) ELSE h

InitEscape ==
    /\ env = [mode |-> MODE_NORMAL, loop |-> MODE_NORMAL, timeout |-> 0,
              this_buf |-> [i \in 1..THIS_BUF_SIZE |-> 0], unget |-> 0 - 1,
              text |-> <<>>, read |-> 0 - 1, last_key |-> 0 - 1, tick |-> FALSE,
              smashed |-> FALSE, ret |-> 0]
    /\ Apart /\ running = TRUE /\ keys = 0

\* the entries of this_buf from timeout on are not read before they are
\* written again: they are not kept, nor is the value handle_escape returned
Reads(e, c) ==
    Step([e EXCEPT !.read = c, !.tick = ~env.tick, !.ret = 0,
                   !.this_buf = [i \in 1..THIS_BUF_SIZE |->
                                   IF i <= e.timeout THEN e.this_buf[i] ELSE 0]])

\* i, R, V, v or Ctrl-V in normal_mode: the mode's function is entered
EscapeEnterMode ==
    /\ env.loop = MODE_NORMAL /\ env.unget = 0 - 1 /\ ~env.smashed
    /\ \E m \in EditLoops :
         Step([env EXCEPT !.mode = m, !.loop = m, !.timeout = 0,
                          !.this_buf = [i \in 1..THIS_BUF_SIZE |-> 0]])

\* a byte arrives while a mode's loop waits in bim_getch
EscapeByte ==
    /\ env.loop \in EditLoops /\ ~env.smashed
    /\ \E c \in EscapeBytes : Reads(mode_loop(env, c), c)

\* the poll of bim_getch times out
EscapePollTimeout ==
    /\ env.loop \in EditLoops /\ ~env.smashed
    /\ Reads(mode_loop(env, POLL_TIMEOUT), POLL_TIMEOUT)

\* normal_mode reads: the byte that was ungot if there is one, else a new one
EscapeNormalKey ==
    /\ env.loop = MODE_NORMAL /\ ~env.smashed
    /\ \E c \in EscapeBytes :
         /\ env.unget # 0 - 1 => c = env.unget
         /\ Reads([env EXCEPT !.unget = 0 - 1, !.last_key = c], c)

NextEscape == EscapeEnterMode \/ EscapeByte \/ EscapePollTimeout \/ EscapeNormalKey

SpecEscape == InitEscape /\ [][NextEscape]_vars

\* a mode's loop has read Esc and nothing after it; it is inside a CSI key
AfterEsc(e) == e.loop \in EditLoops /\ e.loop # MODE_NORMAL /\ e.timeout = 1 /\ e.this_buf[1] = ESC
InsideCsi(e) == e.loop \in EditLoops /\ e.timeout >= 2 /\ e.this_buf[2] = OPEN_BRACKET

\* C34: after Esc in Insert, Replace or a selection mode, (a) a poll that
\* times out leaves the mode; (b) a byte other than `[` leaves the mode,
\* is not put into the text and is the next key normal_mode dispatches;
\* (c) `[`, digits and a final byte are consumed with the mode kept and
\* the text unchanged; and normal_mode dispatches a byte that was ungot
\* as its next key, once.
C34_EscapePrefix ==
    [][env'.tick # env.tick =>
         /\ (AfterEsc(env) /\ env'.read = POLL_TIMEOUT)
              => env'.mode = MODE_NORMAL /\ env'.loop = MODE_NORMAL
         /\ (AfterEsc(env) /\ env'.read \notin {POLL_TIMEOUT, OPEN_BRACKET})
              => /\ env'.mode = MODE_NORMAL /\ env'.loop = MODE_NORMAL
                 /\ env'.unget = env'.read /\ env'.text = env.text
         /\ ((AfterEsc(env) /\ env'.read = OPEN_BRACKET)
               \/ (InsideCsi(env) /\ env'.read # POLL_TIMEOUT))
              => /\ env'.mode = env.mode /\ env'.loop = env.loop
                 /\ env'.text = env.text /\ ~env'.smashed
         /\ (env.loop = MODE_NORMAL /\ env.unget # 0 - 1)
              => env'.last_key = env.unget /\ env'.unget = 0 - 1]_vars

(* C35: Enter and Backspace in Insert mode *)

\* `:noindent`
command_noindent(b) == [b EXCEPT !.indent = FALSE]

\* Enter then Backspace in insert_mode
EnterThenBackspace(b) == delete_at_cursor(insert_line_feed(b))

\* the cursor positions of Insert mode: column 1 up to one past the end
InsertPosition(b) == b.col_no >= 1 /\ b.col_no <= CurLine(b).actual + 1

SelectionTop(b) == Min(b.start_line, b.line_no)
SelectionBottom(b) == Max(b.start_line, b.line_no)

\* C36: `d` in a line selection of a writable buffer removes the lines from
\* the anchor line to the cursor line, both included and whichever comes
\* first, and no other; the lines left keep their text and order; the
\* register holds the removed lines in the order of the document, as full
\* lines; a selection of every line leaves one empty line.
C36_LineSelectionDelete ==
    [][(LineSelDelete /\ ~env.readonly) =>
         LET doc == TextOf(env)
             top == SelectionTop(env)
             bottom == SelectionBottom(env)
         IN /\ ~env'.crashed /\ env'.mode = MODE_NORMAL
            /\ TextOf(env') =
                 IF top = 1 /\ bottom = Len(doc) THEN << <<>> >>
                 ELSE SubSeq(doc, 1, top - 1) \o SubSeq(doc, bottom + 1, Len(doc))
            /\ global_config'.yank_is_full_lines
            /\ [i \in 1..Len(global_config'.yanks) |-> Live(global_config'.yanks[i])]
                 = SubSeq(doc, top, bottom)]_vars

(* C37: vertical motion and the preferred column *)

\* the column the claim gives for a line and a preferred column: the first
\* whose cumulative display width exceeds it, else the last valid column
ColumnFor(b, line, preferred) ==
    LET ws == recalculate_tabs(line)
        hits == {i \in 1..line.actual : SumTo(ws, i) > preferred}
        last == line.actual + (IF b.mode = MODE_INSERT THEN 1 ELSE 0)
    IN IF hits # {} THEN CHOOSE i \in hits : \A j \in hits : i <= j
       ELSE IF last = 0 THEN 1 ELSE last

\* cursor_down or cursor_up has moved b to nb as the claim says
MovedVertically(b, nb, to) ==
    /\ ~nb.crashed
    /\ nb.line_no = to
    /\ nb.preferred_column = b.preferred_column
    /\ nb.col_no = ColumnFor(b, b.lines[to], b.preferred_column)

PreferredIsCurrent(b) ==
    /\ b.preferred_column = set_preferred_column(b).preferred_column
    /\ b.col_no >= 1
    /\ (b.col_no <= CurLine(b).actual \/ b.col_no = 1)

\* no line has lost more cells than it had
WellFormedLines(b) == \A k \in 1..line_count(b) : b.lines[k].actual >= 0

C38_LineLengthInRange ==
    ~env.crashed =>
        \A k \in 1..line_count(env) :
            env.lines[k].actual >= 0 /\ env.lines[k].actual <= Len(env.lines[k].text)

(* C39: the journal as a linked chain *)
(* The journal with its pointers: env.records[r] is the history_t at address *)
(* r, env.history the record env->history points at, env.undone whether the  *)
(* last operation was undo_history.                                          *)

MaxRecords == 5

\* the null pointer
NoRecord == 0

\* memory no history_t lives in
FreeRecord == [live |-> FALSE, type |-> HISTORY_SENTINEL, previous |-> NoRecord, next |-> NoRecord]

\* the types of the records the edit primitives append
EditTypes == {HISTORY_INSERT, HISTORY_REMOVE_LINE}

\* malloc(sizeof(history_t)): any address no record lives at
Allocatable(j) == {r \in 1..MaxRecords : ~j.records[r].live}

\* recursive_history_free(root)
RECURSIVE recursive_history_free_chain(_, _)
recursive_history_free_chain(recs, root) ==
    IF recs[root].next = NoRecord THEN recs
    ELSE LET n == recs[root].next
             Freed_n(r1) == [r1 EXCEPT ![n] = FreeRecord, ![root].next = NoRecord]
         IN Freed_n(recursive_history_free_chain(recs, n))

\* a faulty HIST_APPEND that does not set the next pointer of the record
\* before
HIST_APPEND_chain_unlinked(j, e, type) ==
    LET Linked(recs) ==
            [recs EXCEPT ![e] = [live |-> TRUE, type |-> type,
                                 previous |-> j.history, next |-> NoRecord]]
    IN [j EXCEPT !.records = Linked(recursive_history_free_chain(j.records, j.history)),
                 !.history = e, !.undone = FALSE]

\* HIST_APPEND(e), e allocated by the caller with the given type
HIST_APPEND_chain(j, e, type) ==
    LET Linked(recs) ==
            [recs EXCEPT ![j.history].next = e,
                         ![e] = [live |-> TRUE, type |-> type,
                                 previous |-> j.history, next |-> NoRecord]]
    IN [j EXCEPT !.records = Linked(recursive_history_free_chain(j.records, j.history)),
                 !.history = e, !.undone = FALSE]

\* a faulty set_history_break that appends a break wherever the journal stands
set_history_break_chain_always(j, e) == HIST_APPEND_chain(j, e, HISTORY_BREAK)

\* set_history_break()
set_history_break_chain(j, e) ==
    IF j.records[j.history].type # HISTORY_BREAK /\ j.records[j.history].type # HISTORY_SENTINEL
    THEN HIST_APPEND_chain(j, e, HISTORY_BREAK)
    ELSE [j EXCEPT !.undone = FALSE]

\* the do ... while loop of undo_history, e the record it looks at
RECURSIVE undo_history_loop(_, _)
undo_history_loop(j, e) ==
    IF j.records[e].type = HISTORY_SENTINEL THEN j
    ELSE LET p == j.records[e].previous
             j1 == [j EXCEPT !.history = p]
         IN IF j.records[p].type # HISTORY_BREAK THEN undo_history_loop(j1, p) ELSE j1

\* undo_history(), the journal part
undo_history_chain(j) ==
    IF j.records[j.history].type = HISTORY_SENTINEL THEN [j EXCEPT !.undone = FALSE]
    ELSE [undo_history_loop(j, j.history) EXCEPT !.undone = TRUE]

\* the while (e) loop of redo_history
RECURSIVE redo_history_loop(_, _)
redo_history_loop(j, e) ==
    IF e = NoRecord THEN j
    ELSE IF j.records[e].type = HISTORY_BREAK THEN [j EXCEPT !.history = e]
    ELSE redo_history_loop([j EXCEPT !.history = e], j.records[e].next)

\* redo_history(), the journal part
redo_history_chain(j) ==
    [redo_history_loop(j, j.records[j.history].next) EXCEPT !.undone = FALSE]

\* setup_buffer(): the sentinel, zeroed by memset
InitJournal ==
    /\ \E s \in 1..MaxRecords :
         env = [records |-> [r \in 1..MaxRecords |->
                               IF r = s THEN [live |-> TRUE, type |-> HISTORY_SENTINEL,
                                              previous |-> NoRecord, next |-> NoRecord]
                               ELSE FreeRecord],
                history |-> s, undone |-> FALSE]
    /\ Apart /\ running = TRUE /\ keys = 0

\* an edit primitive records one change
JournalEdit ==
    /\ \E e \in Allocatable(env), type \in EditTypes : env' = HIST_APPEND_chain(env, e, type)
    /\ UnchangedButEnv

\* a mode is left, or a command ends: the group is closed
JournalBreak ==
    /\ \E e \in Allocatable(env) : env' = set_history_break_chain(env, e)
    /\ UnchangedButEnv

\* `u`
JournalUndo ==
    /\ env' = undo_history_chain(env)
    /\ UnchangedButEnv

\* Ctrl-R
JournalRedo ==
    /\ env' = redo_history_chain(env)
    /\ UnchangedButEnv

NextJournal == JournalEdit \/ JournalBreak \/ JournalUndo \/ JournalRedo

SpecJournal == InitJournal /\ [][NextJournal]_vars

\* the records reached from r by following previous, r first
RECURSIVE Predecessors(_, _, _)
Predecessors(j, r, fuel) ==
    IF r = NoRecord \/ fuel = 0 THEN <<>>
    ELSE <<r>> \o Predecessors(j, j.records[r].previous, fuel - 1)

\* the live records
LiveRecords(j) == {r \in 1..MaxRecords : j.records[r].live}

\* C39: following previous from the current record reaches the one Sentinel,
\* which has no predecessor; next and previous are inverse of each other on
\* every record; no Break comes directly after the Sentinel or after a
\* Break; and after an undo the current record is the Sentinel or a Break.
C39_JournalWellFormed ==
    LET back == Predecessors(env, env.history, MaxRecords + 1)
        first == back[Len(back)]
    IN /\ env.history \in LiveRecords(env)
       /\ Len(back) <= MaxRecords
       /\ \A i \in 1..Len(back) : back[i] \in LiveRecords(env)
       /\ env.records[first].type = HISTORY_SENTINEL
       /\ env.records[first].previous = NoRecord
       /\ \A r \in LiveRecords(env) :
            /\ env.records[r].type = HISTORY_SENTINEL => r = first
            /\ env.records[r].next # NoRecord =>
                 /\ env.records[r].next \in LiveRecords(env)
                 /\ env.records[env.records[r].next].previous = r
            /\ env.records[r].previous # NoRecord =>
                 /\ env.records[r].previous \in LiveRecords(env)
                 /\ env.records[env.records[r].previous].next = r
            /\ env.records[r].type = HISTORY_BREAK =>
                 /\ env.records[r].previous # NoRecord
                 /\ env.records[env.records[r].previous].type # HISTORY_SENTINEL
                 /\ env.records[env.records[r].previous].type # HISTORY_BREAK
       /\ env.undone => env.records[env.history].type \in {HISTORY_SENTINEL, HISTORY_BREAK}

\* an undo has stopped at a Break in the middle of a journal of two groups
C39_UndoneToBreak ==
    /\ env.undone
    /\ env.records[env.history].type = HISTORY_BREAK
    /\ env.records[env.history].next # NoRecord
    /\ env.records[env.history].previous # NoRecord
    /\ Cardinality(LiveRecords(env)) = MaxRecords

(* C40: the loop of the `s` command, call by call *)
(* env.b is the buffer, env.line and env.col the variables of the for and   *)
(* while loops, env.pc the place in process_command: "call" before a call   *)
(* of perform_replacement, "next" at the ++line of the for loop, "report"   *)
(* after it, "done" when process_command has returned.  keys is the parity  *)
(* of the number of statements executed: it tells a call that leaves the    *)
(* buffer and the column as they were from no statement at all.             *)

\* the longest line and the highest count followed; no run that ends reaches
\* either
MaxGrow == 6
MaxReplacements == 6

\* needle_c, replacement_c and the lines the loop is run with
SubstituteNeedles == {<<>>, <<LETTER>>, <<LETTER, LETTER>>}
SubstituteReplacements == {<<>>, <<LETTER>>, <<LETTER, LETTER>>, <<LETTER - 32>>}
SubstituteDocuments == Documents \cup {<<EmptyLine>>}

\* process_command, `s`: the state before the for loop
InitSubstitute ==
    /\ \E lines \in SubstituteDocuments, needle \in SubstituteNeedles,
          replacement \in SubstituteReplacements, global \in BOOLEAN,
          case_insensitive \in BOOLEAN, all_lines \in BOOLEAN :
         env = [b |-> NewBuffer(lines, "file", FALSE), line |-> 1,
                range_bot |-> IF all_lines THEN Len(lines) ELSE 1,
                col |-> 0, replacements |-> 0, needle |-> needle,
                replacement |-> replacement, global |-> global,
                case_insensitive |-> IF case_insensitive THEN 1 ELSE 0, pc |-> "call"]
    /\ Apart /\ running = TRUE /\ keys = 0

\* a statement of the loop is left to execute
SubstituteRuns ==
    \/ env.pc = "call" /\ env.b.lines[env.line].actual < MaxGrow
    \/ env.pc \in {"next", "report"}

\* one statement is executed
SubstituteStatement ==
    /\ SubstituteRuns
    /\ keys' = 1 - keys
    /\ UNCHANGED <<global_config, running, past, others, tab>>

\* one turn of while (col != -1): perform_replacement, the count, the break
\* without `g`
SubstituteCall ==
    /\ env.pc = "call"
    /\ SubstituteStatement
    /\ LET Turned(r) ==
               [env EXCEPT !.b = r.b, !.col = r.out_col,
                           !.replacements = IF r.out_col # 0 - 1
                                            THEN Min(@ + 1, MaxReplacements) ELSE @,
                           !.pc = IF r.out_col = 0 - 1 \/ ~env.global THEN "next" ELSE "call"]
       IN env' = Turned(perform_replacement(env.b, env.line, env.needle, env.replacement,
                                            env.col, env.case_insensitive))

\* ++line and the test line <= range_bot of the for loop
SubstituteNextLine ==
    /\ env.pc = "next"
    /\ SubstituteStatement
    /\ env' = IF env.line + 1 <= env.range_bot
              THEN [env EXCEPT !.line = @ + 1, !.col = 0, !.pc = "call"]
              ELSE [env EXCEPT !.line = @ + 1, !.pc = "report"]

\* the message, set_history_break, and the return to command_mode
SubstituteReport ==
    /\ env.pc = "report"
    /\ SubstituteStatement
    /\ env' = [env EXCEPT !.b = IF env.replacements > 0 THEN set_history_break(@) ELSE @,
                          !.pc = "done"]

NextSubstitute == SubstituteCall \/ SubstituteNextLine \/ SubstituteReport

\* the process runs on while it has a statement to execute: every action of
\* NextSubstitute is a SubstituteStatement step and is enabled whenever
\* SubstituteRuns holds at its place
SpecSubstitute == InitSubstitute /\ [][NextSubstitute]_vars /\ WF_keys(SubstituteStatement)

\* C40: for every needle, replacement and flag combination the `s` command
\* makes finitely many replacements and returns to the dispatcher.
C40_SubstitutionTerminates == <>(env.pc = "done")

\* C40 for needles of one character or more
C40_TerminatesWithNeedle == (env.needle # <<>>) => <>(env.pc = "done")

\* C40 without `g`
C40_TerminatesWithoutG == (~env.global) => <>(env.pc = "done")
====
